---- MODULE Spec2Model ----
(***************************************************************************)
(* Stock-prediction platform: the backtesting engine                       *)
(* (src/portfolio/backtesting_engine.py), the live signal generator        *)
(* (src/trading_signals/signal_generator.py), the position sizer           *)
(* (position_sizer.py), the stop-loss calculator (stop_loss_calculator.py),*)
(* the strategy performance analyzer (strategy_engine.py) and the risk     *)
(* analyzer (risk_analyzer.py).  Each component has its own specification; *)
(* the variables of the others are idle under it.                          *)
(*                                                                         *)
(* Numbers.  Prices, cash and commission are integers (whole currency      *)
(* units); position_size is a whole percentage, as the backtesting page    *)
(* produces it (slider value / 100).  Means and ratios are compared by     *)
(* cross-multiplication or kept as exact fractions <<num, den>>, so the    *)
(* model is the code in exact arithmetic; binary floating-point rounding   *)
(* is not modelled.  A NaN is modelled by what it does: every comparison   *)
(* with it is false.                                                       *)
(*                                                                         *)
(* The frame.  run_backtest reads Close[i] and the window df.iloc[:i+1]    *)
(* at bar i and Close[-1] at the end, so the bars are drawn one at a time: *)
(* df holds the closes read so far, and the frame ends wherever Finish is  *)
(* taken.  Dates are the bar indices (0-based, as df.index[i]).            *)
(***************************************************************************)
EXTENDS Integers, Sequences, FiniteSets, TLC

VARIABLES
    feed,               \* which family of frames the run is fed from
    config,             \* backtest_config
    params,             \* strategy_params
    df,                 \* Close column of the bars read so far
    cash,               \* run_backtest local
    shares,             \* run_backtest local
    trades,             \* run_backtest local: the ledger
    portfolio_history,  \* run_backtest local
    pc,                 \* "loop", "done", "error"
    results,            \* the returned report
    runs,               \* the locals of each of the calls made on one engine instance
    strategy,           \* generate_signal argument
    sensitivity,        \* generate_signal argument
    frame,              \* generate_signal argument: the cells of df it reads
    out,                \* generate_signal's outcome
    sizing,             \* calculate_position_size: the arguments
    sized,              \* calculate_position_size: the returned shares
    pos_entry,          \* StopLossCalculator calls: the entry_price of the position
    pos_stop,           \* the stop_loss given to validate_stop_loss and the exit plan
    validations,        \* validate_stop_loss's result
    exits,              \* calculate_multiple_exit_strategy's num_exits and result
    held_stop,          \* adjust_stop_loss_after_profit: the current_stop fed back
    market_price,       \* adjust_stop_loss_after_profit: the current_price it was last given
    adjusts,            \* number of adjust_stop_loss_after_profit calls so far
    strategy_type,      \* analyze_strategy argument
    has_cols,           \* analyze_strategy: the strategy's columns are in df
    nrows,              \* analyze_strategy: rows of df read so far
    last,               \* analyze_strategy: the cells read of the last row
    events,             \* analyze_strategy local `signals`: the detected events
    positions,          \* analyze_strategy local: the recorded returns
    analysis,           \* analyze_strategy's result
    risk_in,            \* analyze_risk: the volatility and max_drawdown of the frame
    risk_out,           \* analyze_risk's result for each risk_tolerance asked
    risk_sizing,        \* RiskAnalyzer.calculate_position_size: the arguments
    risk_sized,         \* RiskAnalyzer.calculate_position_size: the returned value
    calc_call,          \* calculate_stop_loss: entry_price, method and the cells of df
    calc_stop,          \* calculate_stop_loss: the returned stop
    calc_valid          \* validate_stop_loss of the returned stop

btvars == <<feed, config, params, df, cash, shares, trades, portfolio_history, pc, results,
            runs>>
sgvars == <<strategy, sensitivity, frame, out>>
pzvars == <<sizing, sized>>
slvars == <<pos_entry, pos_stop, validations, exits, held_stop, market_price, adjusts>>
sevars == <<strategy_type, has_cols, nrows, last, events, positions, analysis>>
rkvars == <<risk_in, risk_out, risk_sizing, risk_sized>>
scvars == <<calc_call, calc_stop, calc_valid>>
vars == <<feed, config, params, df, cash, shares, trades, portfolio_history, pc, results,
          runs, strategy, sensitivity, frame, out, pzvars, slvars, sevars, rkvars, scvars>>

----------------------------------------------------------------------------
(* Bounds of the model *)

\* closes are drawn from 1..MaxPrice
MaxPrice == 3
\* the first FlatBars bars of a "tail" frame repeat the first close
FlatBars == 48
\* a "tail" frame has at most MaxBars bars
MaxBars == 52

(* Program constants *)

\* _generate_signal: if len(df) < 50: return 'HOLD'
MinBars == 50

----------------------------------------------------------------------------
(* Arithmetic helpers *)

Min(a, b) == IF a < b THEN a ELSE b
Abs(a) == IF a < 0 THEN -a ELSE a

\* Python's int() on a quotient n/d (d > 0): truncation toward zero
IntDiv(n, d) == IF n >= 0 THEN n \div d ELSE -((-n) \div d)

RECURSIVE GCD(_, _)
GCD(a, b) == IF b = 0 THEN a ELSE GCD(b, a % b)

\* exact fractions <<num, den>>, den > 0, in lowest terms
Frac(n, d) ==
    LET g == GCD(Abs(n), d)
    IN  IF n = 0 THEN <<0, 1>> ELSE <<n \div g, d \div g>>
FracSub(a, b) == Frac(a[1] * b[2] - b[1] * a[2], a[2] * b[2])
FracGt(a, b) == a[1] * b[2] > b[1] * a[2]
FracLt(a, b) == a[1] * b[2] < b[1] * a[2]
FracGe(a, b) == a[1] * b[2] >= b[1] * a[2]
FracLe(a, b) == a[1] * b[2] <= b[1] * a[2]

RECURSIVE SumRange(_, _, _)
SumRange(s, a, b) == IF a > b THEN 0 ELSE s[a] + SumRange(s, a + 1, b)

RECURSIVE SumOver(_, _)
SumOver(f, S) ==
    IF S = {} THEN 0
    ELSE LET x == CHOOSE y \in S : TRUE IN f[x] + SumOver(f, S \ {x})

----------------------------------------------------------------------------
(* _generate_signal: the backtest's per-bar rule on the window d *)

\* d.rolling(window=w).mean() at 1-based position pos is a number iff pos >= w
RollingDefined(w, pos) == w >= 1 /\ pos >= w
RollingSum(d, w, pos) == SumRange(d, pos - w + 1, pos)

\* a crossover test that lets equal means count as "above"
SmaGtOrEqual(d, S, L, pos) ==
    /\ RollingDefined(S, pos) /\ RollingDefined(L, pos)
    /\ RollingSum(d, S, pos) * L >= RollingSum(d, L, pos) * S

\* sma_short ? sma_long at position pos; false when either is NaN
SmaGt(d, S, L, pos) ==
    /\ RollingDefined(S, pos) /\ RollingDefined(L, pos)
    /\ RollingSum(d, S, pos) * L > RollingSum(d, L, pos) * S
SmaLt(d, S, L, pos) ==
    /\ RollingDefined(S, pos) /\ RollingDefined(L, pos)
    /\ RollingSum(d, S, pos) * L < RollingSum(d, L, pos) * S
SmaGe(d, S, L, pos) ==
    /\ RollingDefined(S, pos) /\ RollingDefined(L, pos)
    /\ RollingSum(d, S, pos) * L >= RollingSum(d, L, pos) * S
SmaLe(d, S, L, pos) ==
    /\ RollingDefined(S, pos) /\ RollingDefined(L, pos)
    /\ RollingSum(d, S, pos) * L <= RollingSum(d, L, pos) * S

MaCrossoverSignal(d, p) ==
    LET n == Len(d)
        S == p.short_window
        L == p.long_window
    IN  IF n < L THEN "HOLD"
        ELSE IF SmaGt(d, S, L, n) /\ SmaLe(d, S, L, n - 1) THEN "BUY"
        ELSE IF SmaLt(d, S, L, n) /\ SmaGe(d, S, L, n - 1) THEN "SELL"
        ELSE "HOLD"

\* delta = Close.diff(): NaN at the first position; where(delta > 0, 0) and
\* where(delta < 0, 0) turn the NaN into 0
Gain(d, j) == IF j >= 2 /\ d[j] - d[j - 1] > 0 THEN d[j] - d[j - 1] ELSE 0
Loss(d, j) == IF j >= 2 /\ d[j] - d[j - 1] < 0 THEN d[j - 1] - d[j] ELSE 0

RECURSIVE GainSum(_, _, _)
GainSum(d, a, b) == IF a > b THEN 0 ELSE Gain(d, a) + GainSum(d, a + 1, b)
RECURSIVE LossSum(_, _, _)
LossSum(d, a, b) == IF a > b THEN 0 ELSE Loss(d, a) + LossSum(d, a + 1, b)

\* rsi = 100 - 100 / (1 + avg_gain / avg_loss) over the last `period` deltas:
\* NaN when both averages are 0 (0/0), 100 when only avg_loss is 0 (x/0 = inf),
\* otherwise 100 * gain / (gain + loss).  The comparisons are cross-multiplied.
RsiSignal(d, p) ==
    LET n == Len(d)
        P == p.period
        g == GainSum(d, n - P + 1, n)
        l == LossSum(d, n - P + 1, n)
    IN  IF n < P THEN "HOLD"
        ELSE IF g + l = 0 THEN "HOLD"
        ELSE IF 100 * g < p.oversold * (g + l) THEN "BUY"
        ELSE IF 100 * g > p.overbought * (g + l) THEN "SELL"
        ELSE "HOLD"

\* One step of ewm(span, adjust=False).mean(): y = (1 - a) * y_prev + a * x with
\* a = 2 / (span + 1), on exact fractions
EwmStep(span, y, x) ==
    Frac((span - 1) * y[1] * x[2] + 2 * x[1] * y[2], (span + 1) * y[2] * x[2])

\* ema_fast, ema_slow, macd and macd_signal after one more close x (with the
\* macd and macd_signal of the position before)
MacdStep(p, q, x) ==
    LET f == EwmStep(p.fast_period, q.fast, <<x, 1>>)
        s == EwmStep(p.slow_period, q.slow, <<x, 1>>)
        m == FracSub(f, s)
    IN  [fast |-> f, slow |-> s, macd |-> m,
         sig |-> EwmStep(p.signal_period, q.sig, m),
         macd_prev |-> q.macd, sig_prev |-> q.sig]

\* the four series start at their first value: ema = Close[0], macd = 0
MacdFirst(d) ==
    [fast |-> <<d[1], 1>>, slow |-> <<d[1], 1>>, macd |-> <<0, 1>>, sig |-> <<0, 1>>,
     macd_prev |-> <<0, 1>>, sig_prev |-> <<0, 1>>]

\* the series at position n, from their values q at position k - 1 (the test
\* on r is always true: it has r evaluated before the next position is taken)
RECURSIVE MacdFrom(_, _, _, _, _)
MacdFrom(d, p, k, n, q) ==
    IF k > n THEN q
    ELSE LET r == MacdStep(p, q, d[k])
         IN  IF r.sig[2] >= 1 THEN MacdFrom(d, p, k + 1, n, r) ELSE r

MacdAt(d, p, n) == MacdFrom(d, p, 2, n, MacdFirst(d))

MacdSignal(d, p) ==
    LET n == Len(d)
        m == MacdAt(d, p, n)
    IN  IF n < p.slow_period + p.signal_period THEN "HOLD"
        ELSE IF FracGt(m.macd, m.sig) /\ FracLe(m.macd_prev, m.sig_prev) THEN "BUY"
        ELSE IF FracLt(m.macd, m.sig) /\ FracGe(m.macd_prev, m.sig_prev) THEN "SELL"
        ELSE "HOLD"

\* a rule without the warm-up of 50 bars
GenerateSignalWithoutWarmup(d, type, p) ==
    IF type = "ma_crossover" THEN MaCrossoverSignal(d, p)
    ELSE IF type = "rsi" THEN RsiSignal(d, p)
    ELSE IF type = "macd" THEN MacdSignal(d, p)
    ELSE "HOLD"

\* 'bollinger', 'combined' and any other type have no branch: the final return
GenerateSignal(d, type, p) ==
    IF Len(d) < MinBars THEN "HOLD"
    ELSE IF type = "ma_crossover" THEN MaCrossoverSignal(d, p)
    ELSE IF type = "rsi" THEN RsiSignal(d, p)
    ELSE IF type = "macd" THEN MacdSignal(d, p)
    ELSE "HOLD"

----------------------------------------------------------------------------
(* _calculate_backtest_metrics *)

BuyTrades(ts) == SelectSeq(ts, LAMBDA t : t.Type = "BUY")
SellTrades(ts) == SelectSeq(ts, LAMBDA t : t.Type = "SELL")

\* range(min(len(buy_trades), len(sell_trades)))
PairCount(ts) == Min(Len(BuyTrades(ts)), Len(SellTrades(ts)))

\* profit_loss of the i-th pair (1-based)
ProfitLoss(ts, i) ==
    (SellTrades(ts)[i].Price - BuyTrades(ts)[i].Price) * BuyTrades(ts)[i].Shares

\* a tally that counts a break-even pair as a win
IsWinOrEven(pl) == pl >= 0

\* if profit_loss > 0: a win, else: a loss
IsWin(pl) == pl > 0

TotalTrades(ts) == Len(ts)

RECURSIVE MaxOf(_, _)
MaxOf(f, S) ==
    IF S = {} THEN 0
    ELSE LET x == CHOOSE y \in S : \A z \in S : f[y] >= f[z] IN f[x]
RECURSIVE MinOf(_, _)
MinOf(f, S) ==
    IF S = {} THEN 0
    ELSE LET x == CHOOSE y \in S : \A z \in S : f[y] <= f[z] IN f[x]

\* max([abs(pl_i) for every pair], default=0)
LargestWin(ts) == MaxOf([i \in 1..PairCount(ts) |-> Abs(ProfitLoss(ts, i))], 1..PairCount(ts))
\* min([pl_i for every pair], default=0)
LargestLoss(ts) == MinOf([i \in 1..PairCount(ts) |-> ProfitLoss(ts, i)], 1..PairCount(ts))

\* The report.  total_return, avg_win and avg_loss are exact fractions.  With
\* an initial_capital of 0 the division of total_return is a numpy float
\* division by zero, which raises nothing: its result is <<0, 0>> (nan) or
\* <<1, 0>>, <<-1, 0>> (inf, -inf).  The
\* sharpe_ratio, max_drawdown and volatility fields (numpy mean/std/sqrt over
\* the returns of portfolio_history) are not part of the model.
CalculateBacktestMetrics(initial_capital, final_value, ts) ==
    LET pairs == 1..PairCount(ts)
        pl == [i \in pairs |-> ProfitLoss(ts, i)]
        wins == {i \in pairs : IsWin(pl[i])}
        losses == pairs \ wins
        total_profit == SumOver(pl, wins)
        total_loss == SumOver([i \in pairs |-> Abs(pl[i])], losses)
    IN  [initial_capital |-> initial_capital,
         final_value |-> final_value,
         total_return |->
             IF initial_capital > 0
             THEN Frac((final_value - initial_capital) * 100, initial_capital)
             ELSE IF initial_capital < 0
             THEN Frac((initial_capital - final_value) * 100, -initial_capital)
             ELSE IF final_value > 0 THEN <<1, 0>>
             ELSE IF final_value < 0 THEN <<-1, 0>> ELSE <<0, 0>>,
         total_trades |-> TotalTrades(ts),
         winning_trades |-> Cardinality(wins),
         losing_trades |-> Cardinality(losses),
         avg_win |-> IF Cardinality(wins) > 0 THEN Frac(total_profit, Cardinality(wins))
                     ELSE <<0, 1>>,
         avg_loss |-> IF Cardinality(losses) > 0 THEN Frac(total_loss, Cardinality(losses))
                      ELSE <<0, 1>>,
         largest_win |-> LargestWin(ts),
         largest_loss |-> LargestLoss(ts)]

----------------------------------------------------------------------------
(* run_backtest *)

\* portfolio_value = cash + (shares * current_price)
PortfolioValue(c, sh, price) == c + sh * price

\* a row whose value leaves the holding out
HistoryEntryCashOnly(i, c, sh, price) ==
    [Date |-> i, PortfolioValue |-> c, Cash |-> c, Shares |-> sh, Price |-> price]

\* the row appended to portfolio_history
HistoryEntry(i, c, sh, price) ==
    [Date |-> i, PortfolioValue |-> PortfolioValue(c, sh, price),
     Cash |-> c, Shares |-> sh, Price |-> price]

\* if signal == 'BUY' and shares == 0 and cash > current_price
BuyActionable(signal, sh, c, price) == signal = "BUY" /\ sh = 0 /\ c > price

\* max_shares = int((cash * position_size) / current_price), position_size = pct / 100
MaxShares(c, pct, price) == IntDiv(c * pct, 100 * price)

\* a SELL test that forgets the holding
SellActionableAnyHolding(signal, sh) == signal = "SELL"

\* elif signal == 'SELL' and shares > 0
SellActionable(signal, sh) == signal = "SELL" /\ sh > 0

BuyTrade(i, price, sh, commission) ==
    [Date |-> i, Type |-> "BUY", Price |-> price, Shares |-> sh,
     Value |-> sh * price, Commission |-> commission]

SellTrade(i, price, sh, commission) ==
    [Date |-> i, Type |-> "SELL", Price |-> price, Shares |-> sh,
     Value |-> sh * price, Commission |-> commission]

\* a purchase that is not charged the commission
CashAfterBuyWithoutCommission(c, sh, price, commission) == c - sh * price

\* cost = (shares * current_price) + commission; cash -= cost
CashAfterBuy(c, sh, price, commission) == c - (sh * price + commission)
\* a sale that is not charged the commission
CashAfterSellWithoutCommission(c, sh, price, commission) == c + sh * price

\* proceeds = (shares * current_price) - commission; cash += proceeds
CashAfterSell(c, sh, price, commission) == c + (sh * price - commission)

\* a final value that leaves the open position out
FinalValueCashOnly(c, sh, d) == c

\* final_value = cash + (shares * df['Close'].iloc[-1])
FinalValue(c, sh, d) == c + sh * d[Len(d)]

(* The frames fed to the run.  A "tail" frame repeats its first close for   *)
(* FlatBars bars (so that the 50-bar warm-up of _generate_signal is reached *)
(* within the bounds) and then takes any closes of 1..MaxPrice.  The        *)
(* "cross" frame is the 252-bar series of the end-to-end scenario: the      *)
(* 20-bar mean rises above the 50-bar mean at bar 100 only and falls below  *)
(* it at bar 200 only.                                                      *)
Prices == 1..MaxPrice

Cross == [bars |-> 252, golden |-> 100, death |-> 200, low |-> 10, high |-> 20, last |-> 5]
CrossClose(i) ==
    IF i < Cross.golden THEN Cross.low ELSE IF i < Cross.death THEN Cross.high ELSE Cross.last

\* the closes bar i (0-based) may have
NextCloses(fd, d, i) ==
    IF fd = "cross" THEN {CrossClose(i)}
    ELSE IF i < FlatBars THEN {d[1]}
    ELSE Prices

FrameLimit(fd) == IF fd = "cross" THEN Cross.bars ELSE MaxBars

\* run_backtest takes any initial_capital: also 0 and a negative one
TailConfigs ==
    [initial_capital : {3, 10}, position_size : {50, 100}, commission : {0, 1}]
    \cup [initial_capital : {-1, 0}, position_size : {100}, commission : {1}]
TailParams ==
    { [type |-> "ma_crossover", short_window |-> 1, long_window |-> 2],
      [type |-> "rsi", period |-> 2, oversold |-> 30, overbought |-> 70],
      [type |-> "macd", fast_period |-> 1, slow_period |-> 3, signal_period |-> 3],
      [type |-> "bollinger", period |-> 20, std_dev |-> 2],
      [type |-> "combined"] }
\* parameters that ask for more bars than the warm-up of _generate_signal
\* (the exact averages of a MACD of such periods do not fit the integers of
\* the model)
LongParams ==
    { [type |-> "ma_crossover", short_window |-> 1, long_window |-> MinBars + 1],
      [type |-> "rsi", period |-> MinBars + 1, oversold |-> 30, overbought |-> 70] }

\* backtest_config.get(..) defaults 10000 / 1.0 / 1.0, params.get(..) defaults 20 / 50
CrossConfig == [initial_capital |-> 10000, position_size |-> 100, commission |-> 1]
CrossParams == [type |-> "ma_crossover", short_window |-> 20, long_window |-> 50]

NoReport == [status |-> "none"]
NoFrame == [rows |-> 0]
NoSignal == [status |-> "none"]
\* an argument not given yet, a result not returned yet
NotCalled == [status |-> "none"]

\* the calls that can be in progress on one engine instance
RunIds == {1, 2}
\* a call not made yet
NoRun ==
    [pc |-> "idle", i |-> 0, cash |-> 0, shares |-> 0, trades |-> << >>,
     portfolio_history |-> << >>, results |-> NoReport]

\* the variables of a component that is not the one under specification
BacktestIdle ==
    /\ feed = "none"
    /\ config = CrossConfig
    /\ params = CrossParams
    /\ df = << >>
    /\ cash = 0
    /\ shares = 0
    /\ trades = << >>
    /\ portfolio_history = << >>
    /\ pc = "idle"
    /\ results = NoReport
    /\ runs = [r \in RunIds |-> NoRun]
SignalIdle ==
    /\ strategy = "none"
    /\ sensitivity = "none"
    /\ frame = NoFrame
    /\ out = NoSignal
SizerIdle ==
    /\ sizing = NotCalled
    /\ sized = NotCalled
StopIdle ==
    /\ pos_entry = 0
    /\ pos_stop = 0
    /\ validations = NotCalled
    /\ exits = NotCalled
    /\ held_stop = 0
    /\ market_price = 0
    /\ adjusts = 0
StrategyIdle ==
    /\ strategy_type = "none"
    /\ has_cols = FALSE
    /\ nrows = 0
    /\ last = NotCalled
    /\ events = << >>
    /\ positions = << >>
    /\ analysis = NotCalled
RiskIdle ==
    /\ risk_in = NotCalled
    /\ risk_out = NotCalled
    /\ risk_sizing = NotCalled
    /\ risk_sized = NotCalled
CalcIdle ==
    /\ calc_call = NotCalled
    /\ calc_stop = NotCalled
    /\ calc_valid = NotCalled

Init ==
    /\ \/ /\ feed = "tail"
          /\ config \in TailConfigs
          /\ params \in TailParams \cup LongParams
          /\ df \in {<< >>} \cup {<<c>> : c \in Prices}
       \/ /\ feed = "cross"
          /\ config = CrossConfig
          /\ params = CrossParams
          /\ df = <<CrossClose(0)>>
    /\ cash = config.initial_capital
    /\ shares = 0
    /\ trades = << >>
    /\ portfolio_history = << >>
    /\ pc = "loop"
    /\ results = NoReport
    /\ runs = [r \in RunIds |-> NoRun]
    /\ SignalIdle
    /\ SizerIdle
    /\ StopIdle
    /\ StrategyIdle
    /\ RiskIdle
    /\ CalcIdle

\* one iteration of: for i in range(1, len(df))
Bar ==
    /\ pc = "loop"
    /\ Len(df) >= 1
    /\ Len(df) < FrameLimit(feed)
    /\ \E current_price \in NextCloses(feed, df, Len(df)) :
         LET i == Len(df)
             d == Append(df, current_price)
             signal == GenerateSignal(d, params.type, params)
             max_shares == MaxShares(cash, config.position_size, current_price)
         IN  /\ df' = d
             /\ portfolio_history' =
                    Append(portfolio_history, HistoryEntry(i, cash, shares, current_price))
             /\ IF BuyActionable(signal, shares, cash, current_price)
                THEN IF max_shares > 0
                     THEN /\ shares' = max_shares
                          /\ cash' = CashAfterBuy(cash, max_shares, current_price,
                                                  config.commission)
                          /\ trades' = Append(trades,
                                 BuyTrade(i, current_price, max_shares, config.commission))
                     ELSE UNCHANGED <<shares, cash, trades>>
                ELSE IF SellActionable(signal, shares)
                THEN /\ cash' = CashAfterSell(cash, shares, current_price, config.commission)
                     /\ trades' = Append(trades,
                            SellTrade(i, current_price, shares, config.commission))
                     /\ shares' = 0
                ELSE UNCHANGED <<shares, cash, trades>>
    /\ UNCHANGED <<feed, config, params, pc, results, runs, sgvars, pzvars, slvars, sevars, rkvars, scvars>>

\* after the loop: final_value, the metrics, the return.  On an empty frame
\* df['Close'].iloc[-1] raises IndexError.
Finish ==
    /\ pc = "loop"
    /\ feed = "cross" => Len(df) = Cross.bars
    /\ IF Len(df) = 0
       THEN /\ pc' = "error"
            /\ UNCHANGED results
       ELSE /\ pc' = "done"
            /\ results' = CalculateBacktestMetrics(config.initial_capital,
                              FinalValue(cash, shares, df), trades)
    /\ UNCHANGED <<feed, config, params, df, cash, shares, trades, portfolio_history, runs,
                   sgvars, pzvars, slvars, sevars, rkvars, scvars>>

Next == Bar \/ Finish

Spec == Init /\ [][Next]_vars

(* Several calls of run_backtest on one BacktestingEngine, as the           *)
(* backtesting page makes them on its module-level instance: every call is  *)
(* given the same frame, strategy_params and backtest_config, a call starts *)
(* at any time, and the calls advance one bar at a time in any order.  The  *)
(* instance holds a logger and a StrategyEngine, which run_backtest,        *)
(* _generate_signal and _calculate_backtest_metrics neither read nor write. *)

\* the frames of FlatBars + 3 bars: signals on the last two bars
RunFrames ==
    {[k \in 1..FlatBars |-> c] \o t : c \in Prices, t \in [1..3 -> Prices]}
RunConfigs == {[initial_capital |-> 10, position_size |-> 100, commission |-> 1]}
RunParams == {p \in TailParams : p.type \in {"ma_crossover", "rsi"}}

\* a call whose ledger is a list kept on the instance
NewRunSharingLedger(cfg, rs) ==
    LET r == CHOOSE x \in DOMAIN rs : \A y \in DOMAIN rs : Len(rs[x].trades) >= Len(rs[y].trades)
    IN  [pc |-> "loop", i |-> 1, cash |-> cfg.initial_capital, shares |-> 0,
         trades |-> rs[r].trades, portfolio_history |-> << >>, results |-> NoReport]

\* cash = initial_capital; shares = 0; trades = []; portfolio_history = []:
\* the locals of a call, whatever the calls rs made so far
NewRun(cfg, rs) ==
    [pc |-> "loop", i |-> 1, cash |-> cfg.initial_capital, shares |-> 0,
     trades |-> << >>, portfolio_history |-> << >>, results |-> NoReport]

InitRuns ==
    /\ feed = "runs"
    /\ df \in RunFrames
    /\ config \in RunConfigs
    /\ params \in RunParams
    /\ cash = 0
    /\ shares = 0
    /\ trades = << >>
    /\ portfolio_history = << >>
    /\ pc = "idle"
    /\ results = NoReport
    /\ runs = [r \in RunIds |-> NoRun]
    /\ SignalIdle
    /\ SizerIdle
    /\ StopIdle
    /\ StrategyIdle
    /\ RiskIdle
    /\ CalcIdle

\* run_backtest is called
Start(r) ==
    /\ runs[r].pc = "idle"
    /\ runs' = [runs EXCEPT ![r] = NewRun(config, runs)]
    /\ UNCHANGED <<feed, config, params, df, cash, shares, trades, portfolio_history, pc,
                   results, sgvars, pzvars, slvars, sevars, rkvars, scvars>>

\* one iteration of the loop of call r
RunBar(r) ==
    /\ runs[r].pc = "loop"
    /\ runs[r].i < Len(df)
    /\ LET me == runs[r]
           i == me.i
           current_price == df[i + 1]
           signal == GenerateSignal(SubSeq(df, 1, i + 1), params.type, params)
           max_shares == MaxShares(me.cash, config.position_size, current_price)
           seen == [me EXCEPT !.i = i + 1,
                              !.portfolio_history =
                                  Append(@, HistoryEntry(i, me.cash, me.shares, current_price))]
       IN  runs' = [runs EXCEPT ![r] =
               IF BuyActionable(signal, me.shares, me.cash, current_price)
               THEN IF max_shares > 0
                    THEN [seen EXCEPT
                            !.shares = max_shares,
                            !.cash = CashAfterBuy(me.cash, max_shares, current_price,
                                                  config.commission),
                            !.trades = Append(@, BuyTrade(i, current_price, max_shares,
                                                          config.commission))]
                    ELSE seen
               ELSE IF SellActionable(signal, me.shares)
               THEN [seen EXCEPT
                       !.cash = CashAfterSell(me.cash, me.shares, current_price,
                                              config.commission),
                       !.trades = Append(@, SellTrade(i, current_price, me.shares,
                                                      config.commission)),
                       !.shares = 0]
               ELSE seen]
    /\ UNCHANGED <<feed, config, params, df, cash, shares, trades, portfolio_history, pc,
                   results, sgvars, pzvars, slvars, sevars, rkvars, scvars>>

\* after the loop of call r
RunFinish(r) ==
    /\ runs[r].pc = "loop"
    /\ runs[r].i = Len(df)
    /\ LET me == runs[r]
       IN  runs' = [runs EXCEPT ![r] =
               [me EXCEPT !.pc = "done",
                          !.results = CalculateBacktestMetrics(config.initial_capital,
                                          FinalValue(me.cash, me.shares, df), me.trades)]]
    /\ UNCHANGED <<feed, config, params, df, cash, shares, trades, portfolio_history, pc,
                   results, sgvars, pzvars, slvars, sevars, rkvars, scvars>>

NextRuns == \E r \in RunIds : Start(r) \/ RunBar(r) \/ RunFinish(r)

SpecRuns == InitRuns /\ [][NextRuns]_vars

----------------------------------------------------------------------------
(* SignalGenerator (src/trading_signals/signal_generator.py)                *)
(*                                                                          *)
(* The frame is the cells generate_signal reads: the number of rows, the    *)
(* columns present, the last row (and the row before it for MACD,           *)
(* MACD_Signal, SMA_20, SMA_50) and the Close five rows back.  Close is a   *)
(* Bar field and always present.  RSI is in points, prices in whole units,  *)
(* MACD, MACD_Signal and Volume_Ratio in hundredths, scores and weights in  *)
(* hundredths.  A reason is modelled by its text without the formatted      *)
(* number.                                                                  *)

\* app/config.py
RSI_OVERSOLD == 30
RSI_OVERBOUGHT == 70
\* 0.5, in hundredths
MACD_SIGNAL_THRESHOLD == 50
\* df['Close'].pct_change(5)
MomentumLag == 5

Signal(a, st, co, rs) ==
    [kind |-> "signal", signal |-> a, strength |-> st, confidence |-> co, reasons |-> rs]
Raises(e) == [kind |-> "error", error |-> e]

\* the neutral result of a sub-rule whose columns are missing
MissingHold == Signal("HOLD", 5, 50, << >>)

\* the thresholds of a rule that ignores the sensitivity
ThresholdsIgnoringSensitivity(sens) == <<RSI_OVERSOLD, RSI_OVERBOUGHT>>

\* oversold, overbought = ... by sensitivity
Thresholds(sens) ==
    IF sens = "Conservative" THEN <<25, 75>>
    ELSE IF sens = "Aggressive" THEN <<35, 65>>
    ELSE <<RSI_OVERSOLD, RSI_OVERBOUGHT>>

\* strength = min(10, int(distance / 3))
RsiStrength(dist) == Min(10, IntDiv(dist, 3))
\* confidence = min(95, int(70 + distance))
RsiConfidence(dist) == Min(95, 70 + dist)

GenerateRsiSignal(f, sens) ==
    LET oversold == Thresholds(sens)[1]
        overbought == Thresholds(sens)[2]
        rsi == f.RSI
    IN  IF "RSI" \notin f.cols THEN MissingHold
        ELSE IF f.rows < 1 THEN Raises("IndexError")
        ELSE IF rsi < oversold
             THEN Signal("BUY", RsiStrength(oversold - rsi), RsiConfidence(oversold - rsi),
                         <<"RSI indicates oversold conditions">>)
        ELSE IF rsi > overbought
             THEN Signal("SELL", RsiStrength(rsi - overbought), RsiConfidence(rsi - overbought),
                         <<"RSI indicates overbought conditions">>)
        ELSE Signal("HOLD", 5, 50, <<"RSI in neutral zone">>)

\* strength = min(10, int(abs(diff) * 10)), diff in hundredths
MacdStrength(diff) == Min(10, IntDiv(Abs(diff) * 10, 100))
\* confidence = min(90, int(65 + abs(diff) * 20))
MacdConfidence(diff) == Min(90, 65 + IntDiv(Abs(diff) * 20, 100))

GenerateMacdSignal(f, sens) ==
    LET diff == f.MACD - f.MACD_Signal
        prev_diff == f.MACD_prev - f.Signal_prev
    IN  IF "MACD" \notin f.cols \/ "MACD_Signal" \notin f.cols THEN MissingHold
        ELSE IF f.rows < 2 THEN Raises("IndexError")
        ELSE IF prev_diff < 0 /\ diff > 0
             THEN Signal("BUY", MacdStrength(diff), MacdConfidence(diff),
                         <<"MACD bullish crossover detected">>)
        ELSE IF prev_diff > 0 /\ diff < 0
             THEN Signal("SELL", MacdStrength(diff), MacdConfidence(diff),
                         <<"MACD bearish crossover detected">>)
        ELSE IF diff > MACD_SIGNAL_THRESHOLD
             THEN Signal("BUY", 6, 60, <<"MACD above signal line">>)
        ELSE IF diff < -MACD_SIGNAL_THRESHOLD
             THEN Signal("SELL", 6, 60, <<"MACD below signal line">>)
        ELSE Signal("HOLD", 5, 50, <<"MACD neutral">>)

GenerateMaSignal(f, sens) ==
    IF "SMA_20" \notin f.cols \/ "SMA_50" \notin f.cols THEN MissingHold
    ELSE IF f.rows < 2 THEN Raises("IndexError")
    ELSE IF f.SMA_20_prev < f.SMA_50_prev /\ f.SMA_20 > f.SMA_50
         THEN Signal("BUY", 8, 75, <<"Golden cross: SMA 20 crossed above SMA 50">>)
    ELSE IF f.SMA_20_prev > f.SMA_50_prev /\ f.SMA_20 < f.SMA_50
         THEN Signal("SELL", 8, 75, <<"Death cross: SMA 20 crossed below SMA 50">>)
    ELSE IF f.Close > f.SMA_20 /\ f.SMA_20 > f.SMA_50
         THEN Signal("BUY", 6, 65, <<"Price above both moving averages - uptrend">>)
    ELSE IF f.Close < f.SMA_20 /\ f.SMA_20 < f.SMA_50
         THEN Signal("SELL", 6, 65, <<"Price below both moving averages - downtrend">>)
    ELSE Signal("HOLD", 5, 50, <<"Moving averages show no clear trend">>)

\* strength = min(10, int((band distance) / band * 100))
BbStrength(dist, band) == Min(10, IntDiv(dist * 100, band))

\* the guard tests BB_Upper and BB_Lower only; df['BB_Middle'] is read after
\* Close, BB_Upper and BB_Lower
GenerateBbSignal(f, sens) ==
    IF "BB_Upper" \notin f.cols \/ "BB_Lower" \notin f.cols THEN MissingHold
    ELSE IF f.rows < 1 THEN Raises("IndexError")
    ELSE IF "BB_Middle" \notin f.cols THEN Raises("KeyError")
    ELSE IF f.Close < f.BB_Lower
         THEN Signal("BUY", BbStrength(f.BB_Lower - f.Close, f.BB_Lower), 70,
                     <<"Price below lower Bollinger Band">>)
    ELSE IF f.Close > f.BB_Upper
         THEN Signal("SELL", BbStrength(f.Close - f.BB_Upper, f.BB_Upper), 70,
                     <<"Price above upper Bollinger Band">>)
    ELSE Signal("HOLD", 5, 50, <<"Price within Bollinger Bands">>)

\* returns = pct_change(5).iloc[-1] * 100 is NaN with fewer than 6 rows;
\* returns > 3 is (Close - Close_5ago) * 100 > 3 * Close_5ago; volume_ratio
\* is 1.0 without the column
GenerateMomentumSignal(f, sens) ==
    LET defined == f.rows >= MomentumLag + 1
        volume_ratio == IF "Volume_Ratio" \in f.cols THEN f.Volume_Ratio ELSE 100
    IN  IF f.rows < 1 THEN Raises("IndexError")
        ELSE IF defined /\ (f.Close - f.Close_5ago) * 100 > 3 * f.Close_5ago
                /\ volume_ratio > 120
             THEN Signal("BUY", 7, 70, <<"Strong upward momentum with high volume">>)
        ELSE IF defined /\ (f.Close - f.Close_5ago) * 100 < -3 * f.Close_5ago
                /\ volume_ratio > 120
             THEN Signal("SELL", 7, 70, <<"Strong downward momentum with high volume">>)
        ELSE Signal("HOLD", 5, 50, <<"Weak momentum signal">>)

\* weights.append(0.25), in hundredths
SubRuleWeight == 25
\* buy_score > 0.4, in hundredths
ScoreThreshold == 40

\* Python's round() of n/d (n >= 0, d > 0): to the nearest integer, ties to even
Round(n, d) ==
    LET q == n \div d
        r == n % d
    IN  IF 2 * r < d THEN q
        ELSE IF 2 * r > d THEN q + 1
        ELSE IF q % 2 = 0 THEN q ELSE q + 1

\* a strength that rounds instead of truncating
CompositeStrengthRounded(score) == Min(10, Round(score * 15, 100))

\* confidence = min(95, int(score * 100)), score in hundredths
CompositeConfidence(score) == Min(95, score)
\* strength = min(10, int(score * 15))
CompositeStrength(score) == Min(10, IntDiv(score * 15, 100))

\* a decision that lets a tie win
CompositeDecisionTie(buy_score, sell_score) ==
    IF buy_score >= sell_score /\ buy_score > ScoreThreshold
    THEN <<"BUY", CompositeConfidence(buy_score), CompositeStrength(buy_score)>>
    ELSE IF sell_score >= buy_score /\ sell_score > ScoreThreshold
    THEN <<"SELL", CompositeConfidence(sell_score), CompositeStrength(sell_score)>>
    ELSE <<"HOLD", 50, 5>>

\* the decision on the two scores: <<signal, confidence, strength>>
CompositeDecision(buy_score, sell_score) ==
    IF buy_score > sell_score /\ buy_score > ScoreThreshold
    THEN <<"BUY", CompositeConfidence(buy_score), CompositeStrength(buy_score)>>
    ELSE IF sell_score > buy_score /\ sell_score > ScoreThreshold
    THEN <<"SELL", CompositeConfidence(sell_score), CompositeStrength(sell_score)>>
    ELSE <<"HOLD", 50, 5>>

RECURSIVE Concat(_)
Concat(ss) == IF ss = << >> THEN << >> ELSE Head(ss) \o Concat(Tail(ss))

\* the four sub-rules in call order: RSI, MACD, moving average, Bollinger
SubResults(f, sens) ==
    <<GenerateRsiSignal(f, sens), GenerateMacdSignal(f, sens),
      GenerateMaSignal(f, sens), GenerateBbSignal(f, sens)>>

GenerateCompositeSignal(f, sens) ==
    LET subs == SubResults(f, sens)
        failed == {i \in 1..4 : subs[i].kind = "error"}
        first == CHOOSE i \in failed : \A j \in failed : i <= j
        signals == SelectSeq(subs, LAMBDA r : r.signal # "HOLD")
        weight == [i \in 1..Len(signals) |-> SubRuleWeight]
        buy_score == SumOver(weight, {i \in 1..Len(signals) : signals[i].signal = "BUY"})
        sell_score == SumOver(weight, {i \in 1..Len(signals) : signals[i].signal = "SELL"})
        dec == CompositeDecision(buy_score, sell_score)
        agreeing == SelectSeq(signals, LAMBDA r : r.signal = dec[1])
        reasons == Concat([i \in 1..Len(agreeing) |-> agreeing[i].reasons])
    IN  IF failed # {} THEN subs[first]
        ELSE IF signals = << >>
             THEN Signal("HOLD", 5, 50, <<"No clear signal from technical indicators">>)
        ELSE Signal(dec[1], dec[3], dec[2],
                    IF reasons # << >> THEN SubSeq(reasons, 1, Min(3, Len(reasons)))
                    ELSE <<"Mixed signals from indicators">>)

GenerateSignalFor(f, strat, sens) ==
    IF strat = "AI Composite" THEN GenerateCompositeSignal(f, sens)
    ELSE IF strat = "RSI Strategy" THEN GenerateRsiSignal(f, sens)
    ELSE IF strat = "MACD Crossover" THEN GenerateMacdSignal(f, sens)
    ELSE IF strat = "Moving Average" THEN GenerateMaSignal(f, sens)
    ELSE IF strat = "Bollinger Bands" THEN GenerateBbSignal(f, sens)
    ELSE IF strat = "Momentum" THEN GenerateMomentumSignal(f, sens)
    ELSE GenerateCompositeSignal(f, sens)

(* The frames generate_signal is called with *)

\* at most MaxMissing indicator columns are absent from a frame
MaxMissing == 2

IndicatorCols ==
    {"RSI", "MACD", "MACD_Signal", "SMA_20", "SMA_50",
     "BB_Upper", "BB_Middle", "BB_Lower", "Volume_Ratio"}

Strategies ==
    {"AI Composite", "RSI Strategy", "MACD Crossover", "Moving Average",
     "Bollinger Bands", "Momentum", "MACD Strategy"}
\* "Balanced" is a sensitivity the code does not name
Sensitivities == {"Conservative", "Moderate", "Aggressive", "Balanced"}

\* rows: 0, 1, 2 and enough for the 5-row momentum
RowCounts == {0, 1, 2, MomentumLag + 1}

\* <<MACD, MACD_Signal, MACD_prev, Signal_prev>>, in hundredths
MacdBullCross == <<3, 0, -10, 0>>
MacdBearCross == <<-60, 0, 10, 0>>
MacdNeutral == <<10, 0, 10, 0>>
MacdCells ==
    {MacdBullCross, MacdBearCross, MacdNeutral,
     <<60, 0, 60, 0>>, <<-60, 0, -60, 0>>, <<50, 0, 50, 0>>, <<-50, 0, -50, 0>>,
     <<51, 0, 0, 0>>, <<400, 0, -400, 0>>}

\* <<SMA_20, SMA_50, SMA_20_prev, SMA_50_prev>>
MaGolden == <<210, 200, 190, 200>>
MaDeath == <<190, 200, 210, 200>>
MaFlat == <<200, 200, 200, 200>>
MaCells == {MaGolden, MaDeath, MaFlat, <<210, 200, 210, 200>>, <<190, 200, 190, 200>>}

\* BB_Upper / BB_Middle / BB_Lower are 300 / 250 / 200 and Close_5ago is 200
\* in every frame
CloseCells == {100, 199, 250, 301}
RsiCells == {20, 50, 80}
RsiFine == 0..100
VolumeCells == {100, 150}

MkFrame(rows, missing, rsi, macd, ma, close, vol) ==
    [rows |-> rows, cols |-> IndicatorCols \ missing,
     RSI |-> rsi,
     MACD |-> macd[1], MACD_Signal |-> macd[2], MACD_prev |-> macd[3], Signal_prev |-> macd[4],
     SMA_20 |-> ma[1], SMA_50 |-> ma[2], SMA_20_prev |-> ma[3], SMA_50_prev |-> ma[4],
     BB_Upper |-> 300, BB_Middle |-> 250, BB_Lower |-> 200,
     Close |-> close, Close_5ago |-> 200, Volume_Ratio |-> vol]

\* complete frames: every combination of the sub-rules' votes
VoteFrames ==
    {MkFrame(rows, {}, rsi, macd, ma, close, vol) :
        rows \in {2, MomentumLag + 1}, rsi \in RsiCells,
        macd \in {MacdBullCross, MacdBearCross, MacdNeutral},
        ma \in {MaGolden, MaDeath, MaFlat}, close \in CloseCells, vol \in VolumeCells}

\* complete frames: each sub-rule's cells over their range
RangeFrames ==
    {MkFrame(2, {}, rsi, MacdNeutral, MaFlat, 250, 100) : rsi \in RsiFine}
    \cup {MkFrame(2, {}, 50, macd, MaFlat, 250, 100) : macd \in MacdCells}
    \cup {MkFrame(2, {}, 50, MacdNeutral, ma, close, 100) : ma \in MaCells, close \in CloseCells}

\* short frames and frames with absent columns
PartialFrames ==
    {MkFrame(rows, missing, rsi, MacdBullCross, MaGolden, close, 150) :
        rows \in RowCounts,
        missing \in {m \in SUBSET IndicatorCols : Cardinality(m) <= MaxMissing},
        rsi \in {20, 50}, close \in {100, 250}}

Frames == VoteFrames \cup RangeFrames \cup PartialFrames

InitSignal ==
    /\ frame \in Frames
    /\ strategy = "none"
    /\ sensitivity = "none"
    /\ out = NoSignal
    /\ BacktestIdle
    /\ SizerIdle
    /\ StopIdle
    /\ StrategyIdle
    /\ RiskIdle
    /\ CalcIdle

\* one call of generate_signal(df, strategy, sensitivity)
Generate ==
    /\ out = NoSignal
    /\ \E strat \in Strategies, sens \in Sensitivities :
         /\ strategy' = strat
         /\ sensitivity' = sens
         /\ out' = GenerateSignalFor(frame, strat, sens)
    /\ UNCHANGED <<frame, btvars, pzvars, slvars, sevars, rkvars, scvars>>

NextSignal == Generate

SpecSignal == InitSignal /\ [][NextSignal]_vars

----------------------------------------------------------------------------
(* PositionSizer.calculate_position_size                                    *)
(* (src/trading_signals/position_sizer.py)                                  *)
(*                                                                          *)
(* portfolio_value, entry_price and stop_loss_price are whole numbers of    *)
(* one currency unit and risk_per_trade_pct is a whole percentage.  The     *)
(* quotient shares = risk_amount / risk_per_share is kept as numerator and  *)
(* denominator until int() truncates it.                                    *)

\* app/config.py: MAX_POSITION_SIZE_PCT = 20.0
MAX_POSITION_SIZE_PCT == 20

\* prices of the sizer's calls are drawn from 0..MaxSizerPrice (and the
\* prices of the documented example)
MaxSizerPrice == 5
\* risk_per_trade_pct is drawn from 0..MaxRiskPct
MaxRiskPct == 3

\* the sizer without the cap on the position value
CalculatePositionSizeUncapped(portfolio_value, entry_price, stop_loss_price, risk_per_trade_pct) ==
    IF portfolio_value <= 0 \/ entry_price <= 0 \/ entry_price = stop_loss_price THEN 0
    ELSE IntDiv(portfolio_value * risk_per_trade_pct,
                100 * Abs(entry_price - stop_loss_price))

CalculatePositionSize(portfolio_value, entry_price, stop_loss_price, risk_per_trade_pct) ==
    IF portfolio_value <= 0 \/ entry_price <= 0 THEN 0
    ELSE LET risk_per_share == Abs(entry_price - stop_loss_price)
             \* shares = (portfolio_value * (risk_per_trade_pct / 100)) / risk_per_share
             shares_num == portfolio_value * risk_per_trade_pct
             shares_den == 100 * risk_per_share
             \* position_value > max_position_value, both sides times 100 * shares_den
             over_cap == shares_num * entry_price * 100
                            > portfolio_value * MAX_POSITION_SIZE_PCT * shares_den
         IN  IF risk_per_share = 0 THEN 0
             ELSE IF over_cap
                  THEN IntDiv(portfolio_value * MAX_POSITION_SIZE_PCT, 100 * entry_price)
                  ELSE IntDiv(shares_num, shares_den)

\* the calls: a portfolio of nothing, of a few units, of 100 and of 10000
SizerCalls ==
    [portfolio_value : {0, 7, 100, 10000},
     entry_price : (0..MaxSizerPrice) \cup {48, 50},
     stop_loss_price : (0..MaxSizerPrice) \cup {48, 50},
     risk_per_trade_pct : 0..MaxRiskPct]

InitSizer ==
    /\ sizing \in SizerCalls
    /\ sized = NotCalled
    /\ BacktestIdle
    /\ SignalIdle
    /\ StopIdle
    /\ StrategyIdle
    /\ RiskIdle
    /\ CalcIdle

\* one call of calculate_position_size
Size ==
    /\ sized = NotCalled
    /\ sized' = [status |-> "returned",
                 shares |-> CalculatePositionSize(sizing.portfolio_value, sizing.entry_price,
                                sizing.stop_loss_price, sizing.risk_per_trade_pct)]
    /\ UNCHANGED <<sizing, btvars, sgvars, slvars, sevars, rkvars, scvars>>

NextSizer == Size

SpecSizer == InitSizer /\ [][NextSizer]_vars

----------------------------------------------------------------------------
(* StopLossCalculator (src/trading_signals/stop_loss_calculator.py):        *)
(* validate_stop_loss, calculate_multiple_exit_strategy and                 *)
(* adjust_stop_loss_after_profit.                                           *)
(*                                                                          *)
(* Prices are whole thousandths of the currency unit (100.00 is 100000),    *)
(* so round(x, 2) is the rounding to a multiple of 10.  Percentages of the  *)
(* exit plan are in tenths of a percent, its risk-reward ratios in          *)
(* hundredths.  A message is modelled by its text without the formatted     *)
(* number.                                                                  *)

\* app/config.py: DEFAULT_STOP_LOSS_PCT = 5.0
DEFAULT_STOP_LOSS_PCT == 5
\* adjust_stop_loss_after_profit(.., profit_threshold=5.0)
ProfitThreshold == 5

\* a call of calculate_multiple_exit_strategy has num_exits in 0..MaxExits
MaxExits == 4
\* adjust_stop_loss_after_profit is called at most MaxAdjusts times on a position
MaxAdjusts == 3

\* round(x, 2) of the price n / d thousandths
RoundCents(n, d) == 10 * Round(n, 10 * d)

\* loss_pct = ((entry_price - stop_loss) / entry_price) * 100 against a
\* percentage given in tenths (entry_price > 0)
LossPctGt(entry_price, stop_loss, tenths) ==
    (entry_price - stop_loss) * 1000 > tenths * entry_price
LossPctLt(entry_price, stop_loss, tenths) ==
    (entry_price - stop_loss) * 1000 < tenths * entry_price

\* a test that also rejects a loss of exactly 20%
TooWideFromTwenty(entry_price, stop_loss) == ~LossPctLt(entry_price, stop_loss, 200)

\* if loss_pct > 20
TooWide(entry_price, stop_loss) == LossPctGt(entry_price, stop_loss, 200)

\* a test that never finds a stop tight
TooTightNever(entry_price, stop_loss) == FALSE

\* if loss_pct < 0.5
TooTight(entry_price, stop_loss) == LossPctLt(entry_price, stop_loss, 5)

Validations(is_valid, errors, warnings, suggestions) ==
    [is_valid |-> is_valid, errors |-> errors, warnings |-> warnings,
     suggestions |-> suggestions]

ErrTooWide == "Stop loss too wide. Risk exceeds 20% which is generally too high."
WarnWide == "Stop loss is wide. Consider tighter stop or smaller position size."
WarnTight == "Stop loss very tight. May trigger prematurely due to normal volatility."

ValidateStopLoss(entry_price, stop_loss) ==
    IF stop_loss >= entry_price
    THEN Validations(FALSE, <<"Stop loss must be below entry price for long positions">>,
             << >>, << >>)
    ELSE IF stop_loss <= 0
    THEN Validations(FALSE, <<"Stop loss must be a positive value">>, << >>, << >>)
    ELSE LET too_wide == TooWide(entry_price, stop_loss)
             wide == ~too_wide /\ LossPctGt(entry_price, stop_loss, 100)
             tight == TooTight(entry_price, stop_loss)
         IN  Validations(~too_wide,
                 IF too_wide THEN <<ErrTooWide>> ELSE << >>,
                 (IF wide THEN <<WarnWide>> ELSE << >>)
                     \o (IF tight THEN <<WarnTight>> ELSE << >>),
                 (IF tight
                  THEN <<"Consider widening stop loss to at least 1-2% to account for market noise">>
                  ELSE << >>)
                     \o (IF LossPctLt(entry_price, stop_loss, 20)
                         THEN <<"Stop loss below typical range. Consider 2-8%.">>
                         ELSE IF LossPctGt(entry_price, stop_loss, 80)
                         THEN <<"Stop loss above typical range. Consider 2-8%.">>
                         ELSE <<"Stop loss is within optimal range for most trading strategies">>))

GetExitDescription(exit_num, total_exits) ==
    IF exit_num = 1 THEN "First target"
    ELSE IF exit_num = total_exits THEN "Final target" ELSE "Intermediate target"

\* position_pct of target i, in tenths of a percent, before round(.., 1):
\* 100 / num_exits, and for the last target 100 - (100 / num_exits) * (num_exits - 1)
PositionPct(i, num_exits) ==
    IF i = num_exits THEN <<1000 * num_exits - 1000 * (num_exits - 1), num_exits>>
    ELSE <<1000, num_exits>>

CalculateMultipleExitStrategy(entry_price, stop_loss, num_exits) ==
    LET risk == entry_price - stop_loss
    IN  IF risk <= 0 THEN << >>
        ELSE [i \in 1..num_exits |->
                 [exit_number |-> i,
                  \* round(entry_price + risk * i * 1.5, 2)
                  target_price |-> RoundCents(2 * entry_price + risk * i * 3, 2),
                  position_percentage |->
                      Round(PositionPct(i, num_exits)[1], PositionPct(i, num_exits)[2]),
                  \* round(i * 1.5, 2)
                  risk_reward_ratio |-> 150 * i,
                  description |-> GetExitDescription(i, num_exits)]]

AdjustStopLossAfterProfit(entry_price, current_price, current_stop, profit_threshold) ==
    \* profit_pct < profit_threshold, both sides times entry_price
    IF (current_price - entry_price) * 100 < profit_threshold * entry_price
    THEN current_stop
    ELSE IF current_stop < entry_price
    THEN RoundCents(entry_price * 1001, 1000)
    ELSE \* new_trailing_stop = current_price * (1 - DEFAULT_STOP_LOSS_PCT * 0.5 / 100)
         LET trailing == current_price * (200 - DEFAULT_STOP_LOSS_PCT)
         IN  IF current_stop * 200 >= trailing
             THEN RoundCents(current_stop, 1)
             ELSE RoundCents(trailing, 200)

\* the positions: entered at 0.504, at 1.00 and at 100.00
StopEntries == {504, 1000, 100000}
\* the stops of a position entered at e: e less 0, 0.4%, 0.5%, .. 20%,
\* 20.1% and 100% of e (to the thousandth below), above e, and below zero
StopsFor(e) ==
    {e - IntDiv(e * l, 1000) : l \in {0, 4, 5, 19, 20, 50, 80, 81, 100, 101, 200, 201, 1000}}
    \cup {e + 10, -10}
\* the current prices of a position entered at e: e times 0.9, 1, 1.049,
\* 1.05, 1.1 and 1.2 (to the thousandth below)
PricesFor(e) == {IntDiv(e * f, 1000) : f \in {900, 1000, 1049, 1050, 1100, 1200}}

InitStop ==
    /\ pos_entry \in StopEntries
    /\ pos_stop \in StopsFor(pos_entry)
    /\ validations = NotCalled
    /\ exits = NotCalled
    /\ held_stop = pos_stop
    /\ market_price = pos_entry
    /\ adjusts = 0
    /\ BacktestIdle
    /\ SignalIdle
    /\ SizerIdle
    /\ StrategyIdle
    /\ RiskIdle
    /\ CalcIdle

\* one call of validate_stop_loss(entry_price, stop_loss)
Validate ==
    /\ validations = NotCalled
    /\ validations' = ValidateStopLoss(pos_entry, pos_stop)
    /\ UNCHANGED <<pos_entry, pos_stop, exits, held_stop, market_price, adjusts,
                   btvars, sgvars, pzvars, sevars, rkvars, scvars>>

\* one call of calculate_multiple_exit_strategy(entry_price, stop_loss, num_exits)
PlanExits ==
    /\ exits = NotCalled
    /\ \E num_exits \in 0..MaxExits :
         exits' = [num_exits |-> num_exits,
                   exit_strategy |->
                       CalculateMultipleExitStrategy(pos_entry, pos_stop, num_exits)]
    /\ UNCHANGED <<pos_entry, pos_stop, validations, held_stop, market_price, adjusts,
                   btvars, sgvars, pzvars, sevars, rkvars, scvars>>

\* one call of adjust_stop_loss_after_profit(entry_price, current_price,
\* current_stop) whose result is kept as the position's stop
Adjust ==
    /\ adjusts < MaxAdjusts
    /\ \E p \in PricesFor(pos_entry) :
         /\ market_price' = p
         /\ held_stop' = AdjustStopLossAfterProfit(pos_entry, p, held_stop, ProfitThreshold)
    /\ adjusts' = adjusts + 1
    /\ UNCHANGED <<pos_entry, pos_stop, validations, exits, btvars, sgvars, pzvars, sevars, rkvars, scvars>>

NextStop == Validate \/ PlanExits \/ Adjust

SpecStop == InitStop /\ [][NextStop]_vars

(* calculate_stop_loss with its five methods, called with the default       *)
(* percentages (custom_pct = None, atr_multiplier = 2.0), and the           *)
(* validate_stop_loss of what it returns.  The frame is the cells the       *)
(* methods read: whether df is given, its number of rows, the ATR of the    *)
(* last row if there is an ATR column, the lowest Low of the last 20 rows,  *)
(* the highest High of the last 10 rows and the standard deviation of the   *)
(* last 20 returns, in thousandths.                                         *)

\* calculate_stop_loss(.., atr_multiplier=2.0, ..)
AtrMultiplier == 2

Larger(a, b) == IF a > b THEN a ELSE b

\* entry_price * (1 - DEFAULT_STOP_LOSS_PCT / 100)
PercentageStopLoss(entry_price) ==
    RoundCents(entry_price * (100 - DEFAULT_STOP_LOSS_PCT), 100)

AtrStopLoss(entry_price, fr) ==
    IF ~fr.given \/ ~fr.has_atr THEN PercentageStopLoss(entry_price)
    ELSE IF fr.atr <= 0 THEN PercentageStopLoss(entry_price)
    ELSE RoundCents(Larger(100 * (entry_price - fr.atr * AtrMultiplier),
                           entry_price * (100 - DEFAULT_STOP_LOSS_PCT * 2)), 100)

\* recent_low * 0.985 kept between 7.5% and 2.5% below the entry
SupportStopLoss(entry_price, fr) ==
    IF ~fr.given \/ fr.rows < 20 THEN PercentageStopLoss(entry_price)
    ELSE RoundCents(Larger(entry_price * (1000 - 15 * DEFAULT_STOP_LOSS_PCT),
                           Min(fr.recent_low * 985,
                               entry_price * (1000 - 5 * DEFAULT_STOP_LOSS_PCT))), 1000)

\* highest_price * (1 - trail_pct / 100) with trail_pct = DEFAULT_STOP_LOSS_PCT * 0.6,
\* not lower than DEFAULT_STOP_LOSS_PCT below the entry
TrailingStopLoss(entry_price, fr) ==
    IF ~fr.given \/ fr.rows < 10 THEN PercentageStopLoss(entry_price)
    ELSE RoundCents(Larger(fr.highest_price * (1000 - 6 * DEFAULT_STOP_LOSS_PCT),
                           entry_price * (1000 - 10 * DEFAULT_STOP_LOSS_PCT)), 1000)

\* volatility_adjusted_pct = min(PCT * (1 + volatility * 10), PCT * 2), in
\* hundredths of PCT
VolatilityStopLoss(entry_price, fr) ==
    IF ~fr.given \/ fr.rows < 20 THEN PercentageStopLoss(entry_price)
    ELSE RoundCents(entry_price
                        * (10000 - DEFAULT_STOP_LOSS_PCT * Min(100 + fr.volatility, 200)),
                    10000)

CalculateStopLoss(entry_price, method, fr) ==
    IF entry_price <= 0 THEN 0
    ELSE IF method = "percentage" THEN PercentageStopLoss(entry_price)
    ELSE IF method = "atr" THEN AtrStopLoss(entry_price, fr)
    ELSE IF method = "support" THEN SupportStopLoss(entry_price, fr)
    ELSE IF method = "trailing" THEN TrailingStopLoss(entry_price, fr)
    ELSE IF method = "volatility" THEN VolatilityStopLoss(entry_price, fr)
    ELSE PercentageStopLoss(entry_price)

\* the frames around an entry price e: lows and highs within 10% of it
CalcFramesFor(e) ==
    {[given |-> FALSE, rows |-> 0, has_atr |-> FALSE, atr |-> 0, recent_low |-> 0,
      highest_price |-> 0, volatility |-> 0]}
    \cup [given : {TRUE}, rows : {5, 10, 20}, has_atr : BOOLEAN, atr : {0, e \div 100, e},
          recent_low : {(e * 9) \div 10, (e * 99) \div 100, (e * 11) \div 10},
          highest_price : {e, (e * 103) \div 100, (e * 11) \div 10},
          volatility : {0, 20, 500}]

\* entry prices of 0, 0.01, 0.50, 100.00 and 123.40
CalcCalls ==
    UNION {[entry_price : {e},
            method : {"percentage", "atr", "support", "trailing", "volatility", "fixed"},
            df : CalcFramesFor(e)] : e \in {0, 10, 500, 100000, 123400}}

InitCalc ==
    /\ calc_call \in CalcCalls
    /\ calc_stop = NotCalled
    /\ calc_valid = NotCalled
    /\ BacktestIdle
    /\ SignalIdle
    /\ SizerIdle
    /\ StopIdle
    /\ StrategyIdle
    /\ RiskIdle

\* one call of calculate_stop_loss(entry_price, method, df)
CalcStop ==
    /\ calc_stop = NotCalled
    /\ calc_stop' = [status |-> "returned",
                     stop |-> CalculateStopLoss(calc_call.entry_price, calc_call.method,
                                  calc_call.df)]
    /\ UNCHANGED <<calc_call, calc_valid, btvars, sgvars, pzvars, slvars, sevars, rkvars>>

\* validate_stop_loss(entry_price, stop_loss) of the returned stop
ValidateCalc ==
    /\ calc_stop # NotCalled
    /\ calc_valid = NotCalled
    /\ calc_valid' = ValidateStopLoss(calc_call.entry_price, calc_stop.stop)
    /\ UNCHANGED <<calc_call, calc_stop, btvars, sgvars, pzvars, slvars, sevars, rkvars>>

NextCalc == CalcStop \/ ValidateCalc

SpecCalc == InitCalc /\ [][NextCalc]_vars

----------------------------------------------------------------------------
(* StrategyEngine.analyze_strategy (src/trading_signals/strategy_engine.py) *)
(*                                                                          *)
(* The detection loop reads row i and row i - 1 of the strategy's columns,  *)
(* so the rows are drawn one at a time (action ReadRow): last is the row    *)
(* read before, events the local list `signals`.  Analyze is the rest of    *)
(* the call: the pairing loop, the statistics and the return.  Closes are   *)
(* whole currency units; win_rate and avg_return are exact fractions.       *)

\* a frame of analyze_strategy has at most MaxRows rows
MaxRows == 5

\* entry_price = None
NoEntry == 0

FracAdd(a, b) == Frac(a[1] * b[2] + b[1] * a[2], a[2] * b[2])
RECURSIVE SumFracs(_, _)
SumFracs(q, k) == IF k = 0 THEN <<0, 1>> ELSE FracAdd(SumFracs(q, k - 1), q[k])
\* np.mean(positions)
MeanFrac(q) ==
    LET t == SumFracs(q, Len(q)) IN Frac(t[1], t[2] * Len(q))

StrategyTypes ==
    {"RSI Strategy", "MACD Crossover", "Moving Average", "Bollinger Bands",
     "AI Composite", "Momentum"}
\* the strategies whose branch reads df row by row
RowStrategies == {"RSI Strategy", "MACD Crossover", "Moving Average", "Bollinger Bands"}

\* the cells a strategy reads of one row
RowsOf(type) ==
    IF type = "RSI Strategy" THEN [Close : Prices, RSI : {30, 50, 70}]
    ELSE IF type = "MACD Crossover" THEN [Close : Prices, MACD : {-1, 0, 1}, MACD_Signal : {0}]
    ELSE IF type = "Moving Average" THEN [SMA_20 : {1, 2, 3}, SMA_50 : {2}]
    ELSE [Close : {1, 2, 3}, BB_Lower : {1, 2}, BB_Upper : {2, 3}]

\* first row the detection loop visits (0-based): range(1, len(df)), and
\* range(len(df)) for Bollinger Bands
FirstIndex(type) == IF type = "Bollinger Bands" THEN 0 ELSE 1

\* what iteration i of the detection loop appends to signals
Detect(type, prev, row, i) ==
    IF type = "RSI Strategy"
    THEN IF prev.RSI <= 30 /\ row.RSI > 30
         THEN <<[type |-> "BUY", price |-> row.Close, index |-> i]>>
         ELSE IF prev.RSI >= 70 /\ row.RSI < 70
         THEN <<[type |-> "SELL", price |-> row.Close, index |-> i]>>
         ELSE << >>
    ELSE IF type = "MACD Crossover"
    THEN IF prev.MACD < prev.MACD_Signal /\ row.MACD > row.MACD_Signal
         THEN <<[type |-> "BUY", price |-> row.Close]>>
         ELSE IF prev.MACD > prev.MACD_Signal /\ row.MACD < row.MACD_Signal
         THEN <<[type |-> "SELL", price |-> row.Close]>>
         ELSE << >>
    ELSE IF type = "Moving Average"
    THEN IF prev.SMA_20 < prev.SMA_50 /\ row.SMA_20 > row.SMA_50
         THEN <<[type |-> "BUY"]>>
         ELSE IF prev.SMA_20 > prev.SMA_50 /\ row.SMA_20 < row.SMA_50
         THEN <<[type |-> "SELL"]>>
         ELSE << >>
    ELSE IF row.Close < row.BB_Lower THEN <<[type |-> "BUY"]>>
         ELSE IF row.Close > row.BB_Upper THEN <<[type |-> "SELL"]>>
         ELSE << >>

\* a pairing loop in which a BUY while a position is open replaces its entry price
RECURSIVE PairEventsOverwriting(_, _, _, _)
PairEventsOverwriting(evs, k, entry, pos) ==
    IF k > Len(evs) THEN pos
    ELSE IF evs[k].type = "BUY"
    THEN PairEventsOverwriting(evs, k + 1, evs[k].price, pos)
    ELSE IF evs[k].type = "SELL" /\ entry # NoEntry
    THEN PairEventsOverwriting(evs, k + 1, NoEntry,
             Append(pos, Frac((evs[k].price - entry) * 100, entry)))
    ELSE PairEventsOverwriting(evs, k + 1, entry, pos)

\* the pairing loop from event k on, with the entry price held and the
\* returns recorded so far: for signal in signals: ...
RECURSIVE PairEvents(_, _, _, _)
PairEvents(evs, k, entry, pos) ==
    IF k > Len(evs) THEN pos
    ELSE IF evs[k].type = "BUY" /\ entry = NoEntry
    THEN PairEvents(evs, k + 1, evs[k].price, pos)
    ELSE IF evs[k].type = "SELL" /\ entry # NoEntry
    THEN PairEvents(evs, k + 1, NoEntry,
             Append(pos, Frac((evs[k].price - entry) * 100, entry)))
    ELSE PairEvents(evs, k + 1, entry, pos)

\* len([p for p in positions if p > 0]) / len(positions) * 100
WinRate(pos) ==
    Frac(100 * Cardinality({n \in 1..Len(pos) : pos[n][1] > 0}), Len(pos))

\* the return of a branch whose column test fails
MissingColumns == [win_rate |-> <<0, 1>>, avg_return |-> <<0, 1>>, total_signals |-> 0]

Analysis(win_rate, avg_return, total_signals, recommendations) ==
    [win_rate |-> win_rate, avg_return |-> avg_return, total_signals |-> total_signals,
     recommendations |-> recommendations]

AnalyzeRsiStrategy(evs, pos) ==
    IF pos = << >>
    THEN Analysis(<<0, 1>>, <<0, 1>>, Len(evs), <<"Insufficient trading signals generated">>)
    ELSE Analysis(WinRate(pos), MeanFrac(pos), Len(evs),
             (IF FracGt(WinRate(pos), <<60, 1>>)
              THEN <<"RSI strategy shows strong performance">> ELSE << >>)
             \o (IF FracGt(MeanFrac(pos), <<2, 1>>)
                 THEN <<"Good average returns per trade">> ELSE << >>)
             \o (IF Len(evs) < 5
                 THEN <<"Limited trading opportunities - consider longer timeframe">>
                 ELSE << >>))

AnalyzeMacdStrategy(evs, pos) ==
    IF pos = << >>
    THEN Analysis(<<0, 1>>, <<0, 1>>, Len(evs), <<"No completed trades">>)
    ELSE Analysis(WinRate(pos), MeanFrac(pos), Len(evs), <<"MACD crossover strategy active">>)

\* 'win_rate': 55, 'avg_return': 3.5
AnalyzeMaStrategy(evs) ==
    Analysis(<<55, 1>>, <<7, 2>>, Len(evs), <<"Moving average crossover detected">>)

\* 'win_rate': 58, 'avg_return': 2.8
AnalyzeBbStrategy(evs) ==
    Analysis(<<58, 1>>, <<14, 5>>, Len(evs), <<"Bollinger Bands strategy">>)

\* 'win_rate': 62, 'avg_return': 4.2, 'total_signals': 15
AnalyzeCompositeStrategy ==
    Analysis(<<62, 1>>, <<21, 5>>, 15, <<"Composite strategy combines multiple indicators">>)

InitStrategy ==
    /\ strategy_type \in StrategyTypes
    /\ has_cols \in BOOLEAN
    /\ nrows = 0
    /\ last = NotCalled
    /\ events = << >>
    /\ positions = << >>
    /\ analysis = NotCalled
    /\ BacktestIdle
    /\ SignalIdle
    /\ SizerIdle
    /\ StopIdle
    /\ RiskIdle
    /\ CalcIdle

\* the detection loop comes to the next row of df
ReadRow ==
    /\ analysis = NotCalled
    /\ strategy_type \in RowStrategies
    /\ has_cols
    /\ nrows < MaxRows
    /\ \E row \in RowsOf(strategy_type) :
         /\ last' = row
         /\ events' = IF nrows >= FirstIndex(strategy_type)
                       THEN events \o Detect(strategy_type, last, row, nrows)
                       ELSE events
    /\ nrows' = nrows + 1
    /\ UNCHANGED <<strategy_type, has_cols, positions, analysis,
                   btvars, sgvars, pzvars, slvars, rkvars, scvars>>

\* the end of the frame: the pairing loop, the statistics, the return; a
\* branch whose columns are absent, and the composite branch, return at once
Analyze ==
    /\ analysis = NotCalled
    /\ IF strategy_type \notin RowStrategies
       THEN /\ analysis' = AnalyzeCompositeStrategy
            /\ UNCHANGED positions
       ELSE IF ~has_cols
       THEN /\ analysis' = MissingColumns
            /\ UNCHANGED positions
       ELSE IF strategy_type = "RSI Strategy"
       THEN /\ positions' = PairEvents(events, 1, NoEntry, << >>)
            /\ analysis' = AnalyzeRsiStrategy(events, positions')
       ELSE IF strategy_type = "MACD Crossover"
       THEN /\ positions' = PairEvents(events, 1, NoEntry, << >>)
            /\ analysis' = AnalyzeMacdStrategy(events, positions')
       ELSE IF strategy_type = "Moving Average"
       THEN /\ analysis' = AnalyzeMaStrategy(events)
            /\ UNCHANGED positions
       ELSE /\ analysis' = AnalyzeBbStrategy(events)
            /\ UNCHANGED positions
    /\ UNCHANGED <<strategy_type, has_cols, nrows, last, events,
                   btvars, sgvars, pzvars, slvars, rkvars, scvars>>

NextStrategy == ReadRow \/ Analyze

SpecStrategy == InitStrategy /\ [][NextStrategy]_vars

----------------------------------------------------------------------------
(* RiskAnalyzer (src/trading_signals/risk_analyzer.py): analyze_risk and    *)
(* calculate_position_size.                                                 *)
(*                                                                          *)
(* _calculate_risk_score reads the frame through _calculate_volatility and  *)
(* _calculate_max_drawdown only; the frame is modelled by these two values  *)
(* (a standard deviation times sqrt(252) has no exact form), exact          *)
(* fractions of a percentage point, or nan: the volatility of a frame of    *)
(* fewer than three closes is nan, the max_drawdown of one of fewer than    *)
(* two.  sharpe_ratio and var are not part of the model.                    *)

\* a float that is not a number: every comparison with it is false
NaN == <<0, 0>>
IsNaN(x) == x[2] = 0
\* x * (n / d) and a + b in floats
Times(x, n, d) == IF IsNaN(x) THEN NaN ELSE Frac(x[1] * n, x[2] * d)
Plus(a, b) == IF IsNaN(a) \/ IsNaN(b) THEN NaN ELSE FracAdd(a, b)
FracAbs(x) == <<Abs(x[1]), x[2]>>
\* Python's min(a, b) and max(a, b): the first argument unless the second is
\* strictly smaller (larger)
PyMin(a, b) == IF FracLt(b, a) THEN b ELSE a
PyMax(a, b) == IF FracGt(b, a) THEN b ELSE a

\* a score that leaves the risk tolerance out
CalculateRiskScoreIgnoringTolerance(volatility, max_drawdown, risk_tolerance) ==
    PyMin(<<10, 1>>, PyMax(<<1, 1>>,
        Plus(Times(volatility, 6, 10), Times(FracAbs(max_drawdown), 4, 10))))

CalculateRiskScore(volatility, max_drawdown, risk_tolerance) ==
    LET max_dd == FracAbs(max_drawdown)
        base_score == Plus(Times(volatility, 6, 10), Times(max_dd, 4, 10))
        risk_score ==
            IF risk_tolerance = "Low" THEN PyMin(<<10, 1>>, Times(base_score, 12, 10))
            ELSE IF risk_tolerance = "High" THEN PyMax(<<1, 1>>, Times(base_score, 8, 10))
            ELSE base_score
    IN  PyMin(<<10, 1>>, PyMax(<<1, 1>>, risk_score))

\* the risk_metrics of analyze_risk; beta is 1.0 without market_returns
AnalyzeRisk(fr, risk_tolerance) ==
    [risk_score |-> CalculateRiskScore(fr.volatility, fr.max_drawdown, risk_tolerance),
     volatility |-> fr.volatility,
     beta |-> <<1, 1>>,
     max_drawdown |-> fr.max_drawdown]

\* risk_per_trade.get(risk_tolerance, 0.02), in percent
RiskPerTrade(risk_tolerance) ==
    IF risk_tolerance = "Low" THEN 1 ELSE IF risk_tolerance = "High" THEN 3 ELSE 2

\* calculate_position_size: the cap of 20% of the portfolio is applied to
\* shares after position_value was computed, and position_value is returned
RiskPositionValue(portfolio_size, current_price, stop_loss, risk_tolerance) ==
    LET risk_per_share == current_price - stop_loss
    IN  IF risk_per_share <= 0 THEN <<0, 1>>
        ELSE Frac(portfolio_size * RiskPerTrade(risk_tolerance) * current_price,
                  100 * risk_per_share)

RiskTolerances == {"Low", "Medium", "High", "Balanced"}

\* volatility and max_drawdown of the frame, given in hundredths of a point
RiskFrames ==
    {[volatility |-> NaN, max_drawdown |-> NaN],
     [volatility |-> NaN, max_drawdown |-> <<0, 1>>]}
    \cup [volatility : {Frac(v, 100) : v \in {0, 100, 125, 1000, 1250, 3000}},
          max_drawdown : {Frac(-d, 100) : d \in {0, 100, 125, 1000, 1250, 5000}}]

RiskSizerCalls ==
    [portfolio_size : {1000, 10000},
     current_price : {10, 150},
     stop_loss : {0, 5, 9, 145, 149, 150, 160},
     risk_tolerance : RiskTolerances]

InitRisk ==
    /\ risk_in \in RiskFrames
    /\ risk_out = [t \in RiskTolerances |-> NotCalled]
    /\ risk_sizing = NotCalled
    /\ risk_sized = NotCalled
    /\ BacktestIdle
    /\ SignalIdle
    /\ SizerIdle
    /\ StopIdle
    /\ StrategyIdle
    /\ CalcIdle

\* one call of analyze_risk(df, current_price, risk_tolerance)
AssessRisk ==
    /\ \E t \in RiskTolerances :
         /\ risk_out[t] = NotCalled
         /\ risk_out' = [risk_out EXCEPT ![t] = AnalyzeRisk(risk_in, t)]
    /\ UNCHANGED <<risk_in, risk_sizing, risk_sized,
                   btvars, sgvars, pzvars, slvars, sevars, scvars>>

\* one call of calculate_position_size(portfolio_size, current_price,
\* stop_loss, risk_tolerance)
SizeByRisk ==
    /\ risk_sized = NotCalled
    /\ \E c \in RiskSizerCalls :
         /\ risk_sizing' = c
         /\ risk_sized' = [status |-> "returned",
                           value |-> RiskPositionValue(c.portfolio_size, c.current_price,
                                         c.stop_loss, c.risk_tolerance)]
    /\ UNCHANGED <<risk_in, risk_out, btvars, sgvars, pzvars, slvars, sevars, scvars>>

NextRisk == AssessRisk \/ SizeByRisk

SpecRisk == InitRisk /\ [][NextRisk]_vars

----------------------------------------------------------------------------
(* Properties of run_backtest (checked under Spec) *)

Flat(d) == \A k \in 1..Len(d) : d[k] = d[1]
LastTrade == trades[Len(trades)]

\* C1: every bar 1..n-1 has one portfolio_history entry, and its Portfolio Value
\* is its Cash + its Shares * Close of that bar; the reported final_value is
\* cash + shares * last Close, also with a position still open.
C1_ValueIsCashPlusHolding ==
    /\ Len(df) >= 1 => Len(portfolio_history) = Len(df) - 1
    /\ \A k \in 1..Len(portfolio_history) :
         LET e == portfolio_history[k]
         IN  /\ e.Date = k
             /\ e.Price = df[k + 1]
             /\ e.PortfolioValue = e.Cash + e.Shares * df[k + 1]
    /\ pc = "done" => results.final_value = cash + shares * df[Len(df)]

\* C1 witness: a finished run with an open position that a bar has recorded
C1_Witness ==
    /\ pc = "done"
    /\ shares > 0
    /\ \E k \in 1..Len(portfolio_history) : portfolio_history[k].Shares > 0

\* C2: shares is never negative; a BUY is recorded only on a bar that started
\* with no shares and cash > close, a SELL only on a bar that started with
\* shares, and it sells them all; so the ledger alternates BUY, SELL, ...
\* from a BUY, a SELL's Shares are those of the BUY before it, and
\* #BUY - #SELL is 0 or 1.
C2_LedgerAlternates ==
    /\ shares >= 0
    /\ \A k \in 1..Len(trades) :
         LET t == trades[k]
             e == portfolio_history[t.Date]
         IN  /\ t.Type = (IF k % 2 = 1 THEN "BUY" ELSE "SELL")
             /\ t.Shares > 0
             /\ t.Type = "BUY" => e.Shares = 0 /\ e.Cash > t.Price
             /\ t.Type = "SELL" =>
                    /\ e.Shares > 0
                    /\ t.Shares = e.Shares
                    /\ t.Shares = trades[k - 1].Shares
    /\ trades # << >> /\ LastTrade.Type = "SELL" => shares = 0
    /\ trades # << >> /\ LastTrade.Type = "BUY" => shares = LastTrade.Shares
    /\ Len(BuyTrades(trades)) - Len(SellTrades(trades)) \in {0, 1}

\* C2 witness: a BUY, its SELL and a second BUY have been recorded
C2_Witness == Len(trades) = 3 /\ shares > 0

\* C3: over a constant-price frame no trade is recorded and final_value is
\* initial_capital, whatever the strategy and the commission; and while the
\* ledger is empty cash is initial_capital.
C3_FlatFrameNoTrades ==
    /\ Flat(df) =>
          /\ trades = << >>
          /\ pc = "done" => /\ results.final_value = config.initial_capital
                            /\ results.total_trades = 0
    /\ trades = << >> => cash = config.initial_capital

\* C3 witness: a finished constant-price run past the warm-up, with a
\* commission set
C3_Witness ==
    /\ pc = "done"
    /\ Flat(df)
    /\ Len(df) > MinBars
    /\ config.commission > 0
    /\ params.type = "rsi"

\* C4 (the claim as stated): on the 252-bar frame with its one golden cross at
\* bar 100 and its one death cross at bar 200 (ma_crossover, capital 10000,
\* commission 1) the ledger is one BUY at bar 100's close and one SELL at bar
\* 200's close, and total_trades is 1.
C4_CrossScenarioOneTrade ==
    (feed = "cross" /\ pc = "done") =>
        /\ Len(trades) = 2
        /\ trades[1].Type = "BUY" /\ trades[1].Date = Cross.golden
        /\ trades[1].Price = CrossClose(Cross.golden)
        /\ trades[2].Type = "SELL" /\ trades[2].Date = Cross.death
        /\ trades[2].Price = CrossClose(Cross.death)
        /\ results.total_trades = 1

\* the ledger part of C4 alone, which the code satisfies
C4_CrossScenarioLedger ==
    (feed = "cross" /\ pc = "done") =>
        /\ Len(trades) = 2
        /\ trades[1].Type = "BUY" /\ trades[1].Date = Cross.golden
        /\ trades[1].Price = CrossClose(Cross.golden)
        /\ trades[2].Type = "SELL" /\ trades[2].Date = Cross.death
        /\ trades[2].Price = CrossClose(Cross.death)
        /\ results.total_trades = 2

\* C5: the report pairs the i-th BUY with the i-th SELL (ledger entries 2i-1
\* and 2i) and tallies each pair once by the sign of (sell price - buy price)
\* * BUY shares; winning + losing = #SELL = min(#BUY, #SELL); a trailing BUY
\* enters no tally, average or extreme, yet final_value marks it to market.
C5_PairedTallies ==
    pc = "done" =>
        LET n == Len(trades) \div 2
            pl == [i \in 1..n |->
                      (trades[2 * i].Price - trades[2 * i - 1].Price) * trades[2 * i - 1].Shares]
            won == {i \in 1..n : pl[i] > 0}
            lost == {i \in 1..n : pl[i] <= 0}
        IN  /\ results.winning_trades = Cardinality(won)
            /\ results.losing_trades = Cardinality(lost)
            /\ results.winning_trades + results.losing_trades = Len(SellTrades(trades))
            /\ Len(SellTrades(trades)) =
                   Min(Len(BuyTrades(trades)), Len(SellTrades(trades)))
            /\ results.avg_win[1] * Cardinality(won) = SumOver(pl, won) * results.avg_win[2]
            /\ results.avg_loss[1] * Cardinality(lost) = -SumOver(pl, lost) * results.avg_loss[2]
            /\ \A i \in 1..n : Abs(pl[i]) <= results.largest_win /\ pl[i] >= results.largest_loss
            /\ n = 0 => results.largest_win = 0 /\ results.largest_loss = 0
            /\ n > 0 => \E i \in 1..n : results.largest_win = Abs(pl[i])
            /\ n > 0 => \E i \in 1..n : results.largest_loss = pl[i]
            /\ results.final_value = cash + shares * df[Len(df)]
            /\ Len(trades) % 2 = 1 => shares = LastTrade.Shares

\* C5 witness: a report over a completed pair followed by a trailing BUY whose
\* shares are worth something at the last close
C5_Witness ==
    /\ pc = "done"
    /\ Len(trades) = 3
    /\ results.winning_trades + results.losing_trades = 1
    /\ results.final_value > cash

\* C19 (the claim as stated): a run_backtest called with initial_capital <= 0
\* or with an empty bar sequence ends in a failure and returns no report.
C19_InvalidInputFails ==
    (pc \in {"done", "error"} /\ (config.initial_capital <= 0 \/ Len(df) = 0)) =>
        pc = "error" /\ results = NoReport

\* The Bollinger rule of this repository (_generate_bb_signal,
\* _analyze_bb_strategy) buys when the close is below the lower band.  The
\* last close c of d is below mean - k * std of the last n closes (the
\* sample deviation of a rolling window) iff, with S their sum and Q the sum
\* of their squares, S > n c and (S - n c)^2 (n - 1) > k^2 n (n Q - S^2).
BelowLowerBand(d, n, k) ==
    LET pos == Len(d)
        S == SumRange(d, pos - n + 1, pos)
        Q == SumRange([i \in 1..pos |-> d[i] * d[i]], pos - n + 1, pos)
        c == d[pos]
    IN  /\ pos >= n
        /\ S > n * c
        /\ (S - n * c) * (S - n * c) * (n - 1) > k * k * n * (n * Q - S * S)

\* C20 (the claim as stated, for 'bollinger'): the per-bar signal is the
\* strategy's own rule, so a bar with enough lookback whose close breaks
\* below the lower band, met with no shares and cash for at least one
\* share, is a BUY and records a Trade.
C20_BollingerBuys ==
    (params.type = "bollinger" /\ Len(df) >= MinBars
        /\ Len(portfolio_history) = Len(df) - 1) =>
        LET e == portfolio_history[Len(portfolio_history)]
        IN  (/\ e.Shares = 0
             /\ e.Cash > e.Price
             /\ MaxShares(e.Cash, config.position_size, e.Price) > 0
             /\ BelowLowerBand(df, params.period, params.std_dev)) =>
                /\ trades # << >>
                /\ LastTrade.Type = "BUY"
                /\ LastTrade.Date = Len(df) - 1

\* a step that reads one more bar
BarTaken == pc = "loop" /\ Len(df) >= 1 /\ Len(df') = Len(df) + 1

\* C24: on a bar whose signal is not actionable (HOLD; BUY while holding;
\* BUY with cash <= close; BUY with floor(cash * fraction / close) = 0; SELL
\* while flat) cash, shares and the ledger stay as they are and the history
\* grows by one entry; an actionable BUY holds floor(cash * fraction / close)
\* shares and takes shares * close + commission from cash; an actionable
\* SELL adds shares * close - commission to cash.
C24_BarEffect ==
    [][BarTaken =>
        LET close == df'[Len(df')]
            signal == GenerateSignal(df', params.type, params)
            want == (cash * config.position_size) \div (100 * close)
            buy == signal = "BUY" /\ shares = 0 /\ cash > close /\ want > 0
            sell == signal = "SELL" /\ shares > 0
        IN  /\ Len(portfolio_history') = Len(portfolio_history) + 1
            /\ buy => /\ shares' = want
                      /\ cash' = cash - (want * close + config.commission)
            /\ sell => cash' = cash + shares * close - config.commission
            /\ (~buy /\ ~sell) => UNCHANGED <<cash, shares, trades>>]_vars

\* a run that bought at a commission, sold, and then read a bar without acting
C24_Witness ==
    /\ Len(trades) = 2
    /\ trades[2].Type = "SELL"
    /\ config.commission > 0
    /\ shares = 0
    /\ Len(df) > trades[2].Date + 1
    /\ cash = config.initial_capital - trades[1].Value + trades[2].Value
                  - 2 * config.commission

\* the trade executed on the last bar read, if any
TradedOnLastBar == trades # << >> /\ LastTrade.Date = Len(df) - 1

\* C25: there is one history entry per bar 1..n-1, in bar order, written
\* before the bar's signal is acted on: the entry of a bar on which a Trade
\* executes shows the cash and shares from before the Trade, and the next
\* bar's entry shows its effect.  So final_value is the last history value
\* when no Trade executes on the last bar, and that value less the
\* commission when one does.
C25_HistoryBeforeTrade ==
    /\ Len(df) >= 1 => Len(portfolio_history) = Len(df) - 1
    /\ \A k \in 1..Len(portfolio_history) :
          portfolio_history[k].Date = k /\ portfolio_history[k].Price = df[k + 1]
    /\ \A j \in 1..Len(trades) :
          LET t == trades[j]
              k == t.Date
          IN  /\ k \in 1..Len(portfolio_history)
              /\ portfolio_history[k].Shares = (IF t.Type = "BUY" THEN 0 ELSE t.Shares)
              /\ k < Len(portfolio_history) =>
                    /\ portfolio_history[k + 1].Shares =
                           (IF t.Type = "BUY" THEN t.Shares ELSE 0)
                    /\ portfolio_history[k + 1].Cash =
                           (IF t.Type = "BUY"
                            THEN portfolio_history[k].Cash - t.Value - t.Commission
                            ELSE portfolio_history[k].Cash + t.Value - t.Commission)
    /\ (pc = "done" /\ portfolio_history # << >>) =>
          results.final_value =
              portfolio_history[Len(portfolio_history)].PortfolioValue
                  - (IF TradedOnLastBar THEN config.commission ELSE 0)

\* a finished run that bought on an earlier bar and sold on its last bar, at a
\* commission
C25_Witness ==
    /\ pc = "done"
    /\ Len(trades) = 2
    /\ TradedOnLastBar
    /\ config.commission > 0
    /\ portfolio_history[Len(portfolio_history)].Shares > 0
    /\ results.final_value < portfolio_history[Len(portfolio_history)].PortfolioValue

\* the bars the strategy's own parameters ask for
RequiredBars(p) ==
    IF p.type = "ma_crossover" THEN p.long_window
    ELSE IF p.type = "rsi" THEN p.period
    ELSE IF p.type = "macd" THEN p.slow_period + p.signal_period
    ELSE 0

C27_CashNeverNegative ==
    (/\ config.initial_capital > 0
     /\ config.position_size > 0 /\ config.position_size <= 100
     /\ config.commission >= 0) => cash >= 0

\* cash moved by the first k ledger entries
RECURSIVE LedgerCash(_)
LedgerCash(k) ==
    IF k = 0 THEN 0
    ELSE LedgerCash(k - 1)
         + (IF trades[k].Type = "BUY" THEN -(trades[k].Value + trades[k].Commission)
            ELSE trades[k].Value - trades[k].Commission)

\* C28: at every bar, cash is initial_capital less Value + Commission of every
\* BUY of the ledger plus Value - Commission of every SELL, and shares is
\* the Shares of the last entry if that is a BUY and 0 otherwise; so
\* final_value follows from initial_capital, the ledger and the last close.
C28_CashFromLedger ==
    LET held == IF trades # << >> /\ LastTrade.Type = "BUY" THEN LastTrade.Shares ELSE 0
    IN  /\ cash = config.initial_capital + LedgerCash(Len(trades))
        /\ shares = held
        /\ pc = "done" =>
              results.final_value =
                  config.initial_capital + LedgerCash(Len(trades)) + held * df[Len(df)]

\* a finished run with a position opened, closed and opened again, at a
\* commission
C28_Witness ==
    /\ pc = "done"
    /\ Len(trades) = 3
    /\ config.commission > 0
    /\ shares > 0

\* C30 (the claim as stated): largest_win is 0 when winning_trades is 0 and
\* otherwise the largest profit of a winning pair (so at least avg_win);
\* largest_loss is 0 when losing_trades is 0 and otherwise the most negative
\* profit/loss of a losing pair (so at most 0).
C30_ExtremesAgreeWithTallies ==
    pc = "done" =>
        LET pairs == 1..PairCount(trades)
            won == {i \in pairs : ProfitLoss(trades, i) > 0}
            lost == pairs \ won
        IN  /\ results.winning_trades = 0 => results.largest_win = 0
            /\ results.winning_trades > 0 =>
                  /\ \E i \in won : results.largest_win = ProfitLoss(trades, i)
                  /\ \A i \in won : results.largest_win >= ProfitLoss(trades, i)
                  /\ results.largest_win * results.avg_win[2] >= results.avg_win[1]
            /\ results.losing_trades = 0 => results.largest_loss = 0
            /\ results.losing_trades > 0 =>
                  /\ \E i \in lost : results.largest_loss = ProfitLoss(trades, i)
                  /\ \A i \in lost : results.largest_loss <= ProfitLoss(trades, i)
                  /\ results.largest_loss <= 0

----------------------------------------------------------------------------
(* Properties of RiskAnalyzer (checked under SpecRisk) *)

\* the tolerance multiplier times ten
ToleranceTenths(t) == IF t = "Low" THEN 12 ELSE IF t = "High" THEN 8 ELSE 10

\* m * (0.6 * volatility + 0.4 * |max_drawdown|) of the frame
ScaledBase(t) ==
    LET v == risk_in.volatility
        d == risk_in.max_drawdown
    IN  Frac(ToleranceTenths(t) * (6 * v[1] * d[2] + 4 * Abs(d[1]) * v[2]), 100 * v[2] * d[2])

RiskAsked(t) == risk_out[t] # NotCalled
MetricsAreNumbers == risk_in.volatility[2] > 0 /\ risk_in.max_drawdown[2] > 0

C23_PositionWithinPortfolio ==
    (/\ risk_sized # NotCalled
     /\ risk_sizing.portfolio_size > 0
     /\ risk_sizing.current_price > risk_sizing.stop_loss
     /\ risk_sizing.stop_loss > 0) =>
        /\ risk_sized.value[1] > 0
        /\ risk_sized.value[1] <= risk_sizing.portfolio_size * risk_sized.value[2]

----------------------------------------------------------------------------
(* Properties of generate_signal (checked under SpecSignal) *)

Called == out # NoSignal
IsComposite(strat) ==
    strat \notin {"RSI Strategy", "MACD Crossover", "Moving Average", "Bollinger Bands",
                  "Momentum"}

\* C6 (the claim as stated): on a frame of fewer than 2 rows every strategy
\* returns HOLD with confidence 50 and strength 5 and raises nothing.
C6_ShortFrameHolds ==
    (Called /\ frame.rows < 2) =>
        /\ out.kind = "signal"
        /\ out.signal = "HOLD"
        /\ out.confidence = 50
        /\ out.strength = 5

\* C7 (the claim as stated, on frames of at least 2 rows): a sub-rule one of
\* whose columns is absent returns HOLD, strength 5, confidence 50, no reasons,
\* and the composite still returns a Signal.
C7_MissingColumnHolds ==
    (Called /\ frame.rows >= 2) =>
        /\ (strategy = "RSI Strategy" /\ "RSI" \notin frame.cols) => out = MissingHold
        /\ (strategy = "MACD Crossover" /\ {"MACD", "MACD_Signal"} \ frame.cols # {})
               => out = MissingHold
        /\ (strategy = "Moving Average" /\ {"SMA_20", "SMA_50"} \ frame.cols # {})
               => out = MissingHold
        /\ (strategy = "Bollinger Bands"
               /\ {"BB_Upper", "BB_Middle", "BB_Lower"} \ frame.cols # {})
               => out = MissingHold
        /\ (IsComposite(strategy) /\ frame.cols # IndicatorCols) => out.kind = "signal"

\* C8 (the claim as stated): every returned Signal has signal in {BUY, SELL,
\* HOLD}, strength in 1..10 and confidence in 0..100.
C8_SignalRanges ==
    (Called /\ out.kind = "signal") =>
        /\ out.signal \in {"BUY", "SELL", "HOLD"}
        /\ out.strength >= 1 /\ out.strength <= 10
        /\ out.confidence >= 0 /\ out.confidence <= 100

\* the votes of the four sub-rules on the frame
Votes(a) == {i \in 1..4 : SubResults(frame, sensitivity)[i].signal = a}
CompositeReturned == Called /\ IsComposite(strategy) /\ out.kind = "signal"

\* C9: each vote weighs 0.25; the composite is BUY iff the BUY weight exceeds
\* the SELL weight and 0.4, SELL symmetrically, HOLD (confidence 50, strength
\* 5) otherwise; so BUY needs two BUY votes and more BUY than SELL votes.
C9_CompositeVote ==
    CompositeReturned =>
        LET nb == Cardinality(Votes("BUY"))
            ns == Cardinality(Votes("SELL"))
        IN  /\ out.signal = "BUY" <=> (25 * nb > 25 * ns /\ 25 * nb > 40)
            /\ out.signal = "SELL" <=> (25 * ns > 25 * nb /\ 25 * ns > 40)
            /\ out.signal = "BUY" => nb >= 2 /\ nb > ns
            /\ out.signal = "SELL" => ns >= 2 /\ ns > nb
            /\ (nb = ns \/ (nb <= 1 /\ ns <= 1)) =>
                   out.signal = "HOLD" /\ out.confidence = 50 /\ out.strength = 5

\* C9 witness: two BUY votes against two SELL votes
C9_Witness ==
    /\ CompositeReturned
    /\ Cardinality(Votes("BUY")) = 2
    /\ Cardinality(Votes("SELL")) = 2

\* the winning weight of a BUY or SELL composite, in hundredths
WinningWeight == 25 * Cardinality(Votes(out.signal))

\* C10 (the claim as stated): a BUY or SELL composite of winning weight w has
\* confidence min(95, round(100 w)) and strength min(10, round(15 w)); 8 at
\* w = 0.5.
C10_RoundedStrength ==
    (CompositeReturned /\ out.signal # "HOLD") =>
        /\ WinningWeight \in {50, 75, 100}
        /\ out.confidence = Min(95, Round(WinningWeight * 100, 100))
        /\ out.strength = Min(10, Round(WinningWeight * 15, 100))

\* C10 (amended): the confidence is min(95, 100 w) and the strength is
\* min(10, 15 w truncated to an integer): 50 and 7 at w = 0.5, 75 and 10 at
\* w = 0.75, 95 and 10 at w = 1.
C10_TruncatedStrength ==
    (CompositeReturned /\ out.signal # "HOLD") =>
        /\ WinningWeight \in {50, 75, 100}
        /\ WinningWeight = 50 => out.confidence = 50 /\ out.strength = 7
        /\ WinningWeight = 75 => out.confidence = 75 /\ out.strength = 10
        /\ WinningWeight = 100 => out.confidence = 95 /\ out.strength = 10

\* C10 witness: a composite won with weight 0.5
C10_Witness ==
    /\ CompositeReturned
    /\ out.signal = "BUY"
    /\ WinningWeight = 50
    /\ out.strength = 7

\* the RSI sub-rule was called on a frame that has the RSI column and a row
RsiRuleReturned ==
    Called /\ strategy = "RSI Strategy" /\ "RSI" \in frame.cols /\ frame.rows >= 1

\* C11: the RSI sub-rule compares the last RSI strictly with 25/75 under
\* Conservative, 35/65 under Aggressive and 30/70 under Moderate and under
\* any sensitivity it does not name: BUY iff RSI < oversold, SELL iff
\* RSI > overbought, HOLD when RSI is at a threshold or between the two.
C11_RsiThresholds ==
    RsiRuleReturned =>
        LET oversold == IF sensitivity = "Conservative" THEN 25
                        ELSE IF sensitivity = "Aggressive" THEN 35 ELSE 30
            overbought == IF sensitivity = "Conservative" THEN 75
                          ELSE IF sensitivity = "Aggressive" THEN 65 ELSE 70
        IN  /\ out.kind = "signal"
            /\ out.signal = "BUY" <=> frame.RSI < oversold
            /\ out.signal = "SELL" <=> frame.RSI > overbought
            /\ out.signal = "HOLD" <=> (frame.RSI >= oversold /\ frame.RSI <= overbought)

\* C11 witness: under an unnamed sensitivity an RSI of exactly 30 holds
C11_Witness ==
    /\ RsiRuleReturned
    /\ sensitivity = "Balanced"
    /\ frame.RSI = 30
    /\ out.signal = "HOLD"

----------------------------------------------------------------------------
(* Properties of calculate_position_size (checked under SpecSizer) *)

SizerReturned == sized # NotCalled

\* C12: for portfolio_value > 0, entry_price > 0 and risk_per_trade_pct >= 0
\* the result is floor(min(risk_amount / risk_per_share,
\* 0.20 * portfolio_value / entry_price)), that is the largest n >= 0 with
\* n * risk_per_share <= risk_amount and n * entry_price <= 20% of the
\* portfolio, and 0 when risk_per_share is 0; (10000, 50, 48, 2) gives 40.
C12_PositionSize ==
    (SizerReturned /\ sizing.portfolio_value > 0 /\ sizing.entry_price > 0
        /\ sizing.risk_per_trade_pct >= 0) =>
        LET n == sized.shares
            pv == sizing.portfolio_value
            entry == sizing.entry_price
            rps == Abs(sizing.entry_price - sizing.stop_loss_price)
            Fits(k) == /\ k * 100 * rps <= pv * sizing.risk_per_trade_pct
                       /\ k * 100 * entry <= 20 * pv
        IN  /\ n >= 0
            /\ rps = 0 => n = 0
            /\ rps > 0 => Fits(n) /\ ~Fits(n + 1)
            /\ n * entry * 100 <= 20 * pv
            /\ (pv = 10000 /\ entry = 50 /\ sizing.stop_loss_price = 48
                   /\ sizing.risk_per_trade_pct = 2) => n = 40

\* C12 witness: the documented example, capped from 100 shares to 40
C12_Witness ==
    /\ SizerReturned
    /\ sizing = [portfolio_value |-> 10000, entry_price |-> 50, stop_loss_price |-> 48,
                 risk_per_trade_pct |-> 2]
    /\ sized.shares = 40

----------------------------------------------------------------------------
(* Properties of the stop-loss calculator (checked under SpecStop) *)

Validated == validations # NotCalled
\* loss% = (entry - stop) / entry * 100 of the position's stop is 20, is above 20
LossIsTwenty == (pos_entry - pos_stop) * 100 = 20 * pos_entry
LossOverTwenty == (pos_entry - pos_stop) * 100 > 20 * pos_entry
InSeq(x, q) == \E k \in 1..Len(q) : q[k] = x

\* C13 (the claim as stated): a stop at a loss of exactly 20% (entry 100,
\* stop 80) is reported invalid with the "too wide" error, and every stop
\* >= entry or <= 0 is reported invalid.
C13_TwentyIsTooWide ==
    Validated =>
        /\ (pos_stop >= pos_entry \/ pos_stop <= 0) => ~validations.is_valid
        /\ (pos_stop > 0 /\ LossIsTwenty) =>
               ~validations.is_valid /\ InSeq(ErrTooWide, validations.errors)

\* C13 (amended): every stop >= entry or <= 0 is reported invalid; a stop
\* below entry and above 0 is invalid, with the "too wide" error, iff its
\* loss is strictly above 20%; at exactly 20% (entry 100, stop 80) it is
\* valid, without errors, and carries the "wide" warning.
C13_OverTwentyIsTooWide ==
    Validated =>
        /\ (pos_stop >= pos_entry \/ pos_stop <= 0) =>
               ~validations.is_valid /\ Len(validations.errors) = 1
        /\ (pos_stop > 0 /\ pos_stop < pos_entry) =>
               /\ ~validations.is_valid <=> LossOverTwenty
               /\ InSeq(ErrTooWide, validations.errors) <=> LossOverTwenty
        /\ (pos_stop > 0 /\ LossIsTwenty) =>
               /\ validations.is_valid
               /\ validations.errors = << >>
               /\ validations.warnings = <<WarnWide>>

\* C13 witness: entry 100.00, stop 80.00 validated, and valid
C13_Witness ==
    /\ Validated
    /\ pos_entry = 100000
    /\ pos_stop = 80000
    /\ validations.is_valid
    /\ validations.warnings = <<WarnWide>>

\* loss% of the position's stop is below 0.5
LossUnderHalf == (pos_entry - pos_stop) * 1000 < 5 * pos_entry

\* C14: a stop with 0 < stop < entry and a loss below 0.5% (entry 100, stop
\* 99.6) gets the premature-trigger warning and stays valid, without errors;
\* a result is invalid only when it carries an error, whatever its warnings
\* and suggestions.
C14_TightStopWarned ==
    Validated =>
        /\ (pos_entry > 0 /\ pos_stop > 0 /\ pos_stop < pos_entry /\ LossUnderHalf) =>
               /\ InSeq(WarnTight, validations.warnings)
               /\ validations.is_valid
               /\ validations.errors = << >>
        /\ validations.is_valid <=> validations.errors = << >>
        /\ (pos_stop > 0 /\ pos_stop < pos_entry /\ ~LossOverTwenty) =>
               validations.is_valid /\ Len(validations.suggestions) >= 1

\* C14 witness: entry 100.00, stop 99.60 validated
C14_Witness ==
    /\ Validated
    /\ pos_entry = 100000
    /\ pos_stop = 99600
    /\ validations.warnings = <<WarnTight>>
    /\ validations.is_valid

\* the step is a call of adjust_stop_loss_after_profit; market_price' is the
\* current price it is given, held_stop the stop fed in, held_stop' the stop
\* returned
AdjustCalled == adjusts' = adjusts + 1
ProfitBelowThreshold == (market_price' - pos_entry) * 100 < 5 * pos_entry

\* C15 (the claim as stated): over the calls on a position, each fed the
\* stop the call before returned, the stop never decreases; it is returned
\* unchanged while the unrealized profit is below 5%; and a call at or above
\* 5% that is fed a stop below the entry price returns a stop at or above
\* the entry price.
C15_StopRatchets ==
    [][AdjustCalled =>
          /\ held_stop' >= held_stop
          /\ ProfitBelowThreshold => held_stop' = held_stop
          /\ (~ProfitBelowThreshold /\ held_stop < pos_entry) => held_stop' >= pos_entry]_vars

Planned == exits # NotCalled

\* C16 (the claim as stated): for entry > stop and num_exits N >= 1 the plan
\* has exactly N targets, the i-th at entry + (entry - stop) * 1.5 * i (to
\* the cent) with risk_reward_ratio 1.5 * i; the first N - 1 targets carry
\* the same position percentage and the reported percentages sum to exactly
\* 100.
C16_ExitPlanSumsToHundred ==
    (Planned /\ pos_entry > pos_stop /\ exits.num_exits >= 1) =>
        LET plan == exits.exit_strategy
            N == exits.num_exits
        IN  /\ Len(plan) = N
            /\ \A i \in 1..N :
                   /\ Abs(2 * plan[i].target_price
                            - (2 * pos_entry + 3 * (pos_entry - pos_stop) * i)) <= 10
                   /\ plan[i].risk_reward_ratio = 150 * i
            /\ \A i, j \in 1..(N - 1) :
                   plan[i].position_percentage = plan[j].position_percentage
            /\ SumRange([i \in 1..N |-> plan[i].position_percentage], 1, N) = 1000

----------------------------------------------------------------------------
(* Properties of analyze_strategy (checked under SpecStrategy) *)

Analyzed == analysis # NotCalled
PairedStrategy == strategy_type \in {"RSI Strategy", "MACD Crossover"} /\ has_cols

\* After an entry event a position is open and after an exit event none is,
\* so the exits that close a position are those right after an entry, and
\* the position one of them closes was opened by the first entry of the run
\* of entries before it.
Closes == {k \in 2..Len(events) : events[k].type = "SELL" /\ events[k - 1].type = "BUY"}
OpenedAt(k) ==
    CHOOSE j \in 1..(k - 1) :
        /\ \A m \in j..(k - 1) : events[m].type = "BUY"
        /\ j = 1 \/ events[j - 1].type = "SELL"
NthClose(n) == CHOOSE k \in Closes : Cardinality({c \in Closes : c <= k}) = n
ReturnOf(k) ==
    Frac((events[k].price - events[OpenedAt(k)].price) * 100, events[OpenedAt(k)].price)

\* C17: for the RSI and MACD strategies the recorded returns are, in order,
\* those of the exits met with a position open, each measured from the entry
\* that opened the position (not from a later entry met while it was open);
\* exits met while flat and a position left open at the end record nothing;
\* win_rate is 100 * (returns > 0) / (number of returns) and total_signals
\* counts every detected event.
C17_SinglePosition ==
    (Analyzed /\ PairedStrategy) =>
        /\ Len(positions) = Cardinality(Closes)
        /\ \A n \in 1..Len(positions) : positions[n] = ReturnOf(NthClose(n))
        /\ analysis.total_signals = Len(events)
        /\ positions # << >> =>
               analysis.win_rate[1] * Len(positions) =
                   100 * Cardinality({k \in Closes : events[k].price > events[OpenedAt(k)].price})
                       * analysis.win_rate[2]

\* C17 witness: an entry, a second entry at another price while the
\* position is open, and the exit that closes it, measured from the first
C17_Witness ==
    /\ Analyzed
    /\ PairedStrategy
    /\ Len(events) = 3
    /\ events[1].type = "BUY" /\ events[2].type = "BUY" /\ events[3].type = "SELL"
    /\ events[1].price # events[2].price
    /\ positions = <<Frac((events[3].price - events[1].price) * 100, events[1].price)>>

\* C18 (the claim as stated): for the RSI, MACD, Moving Average and
\* Bollinger Bands strategies win_rate is 100 * (closed positions with a
\* positive return) / (closed positions) and avg_return their mean return,
\* so an analysis of a frame with no closed position has win_rate 0 and
\* avg_return 0.
C18_StatisticsOfTheFrame ==
    (Analyzed /\ strategy_type \in RowStrategies) =>
        /\ Closes = {} => analysis.win_rate = <<0, 1>> /\ analysis.avg_return = <<0, 1>>
        /\ (PairedStrategy /\ Closes # {}) =>
               /\ analysis.win_rate = WinRate(positions)
               /\ analysis.avg_return = MeanFrac(positions)

----------------------------------------------------------------------------
(* Properties of calculate_stop_loss (checked under SpecCalc) *)

\* C29 (the claim as stated): for every entry_price > 0, every method and
\* every frame the stop returned by calculate_stop_loss is positive and
\* strictly below entry_price, and validate_stop_loss does not reject it as
\* being at or above the entry price.
C29_CalculatedStopBelowEntry ==
    (calc_stop # NotCalled /\ calc_call.entry_price > 0) =>
        /\ calc_stop.stop > 0
        /\ calc_stop.stop < calc_call.entry_price
        /\ calc_valid # NotCalled =>
              ~InSeq("Stop loss must be below entry price for long positions",
                     calc_valid.errors)

====
